---- MODULE Spec2Model ----
(***************************************************************************)
(* A model of the worker daemon of claude-pilot:                           *)
(*   - ensureWorkerDaemon, the daemon supervisor's state machine           *)
(*     (console/src/services/infrastructure/EnsureWorkerDaemon.ts);        *)
(*   - SessionQueueProcessor, the per-session queue iterators              *)
(*     (services/queue/SessionQueueProcessor.ts);                          *)
(*   - the retention scheduler (services/worker/RetentionScheduler.ts);    *)
(*   - the plan association store, its HTTP routes and the plan-scoped     *)
(*     context queries (sqlite/plans/store.ts, PlanRoutes.ts,              *)
(*     context/ObservationCompiler.ts).                                    *)
(* Each component has its own specification (SpecEnsure, SpecQueue,        *)
(* SpecRetention, SpecPlans, ...); a component's actions leave the         *)
(* others' state alone.                                                    *)
(***************************************************************************)
EXTENDS Integers, Sequences, FiniteSets, TLC

(***************************************************************************)
(* Bounds of the model.                                                    *)
(***************************************************************************)
\* concurrent ensureWorkerDaemon calls (hook processes) on the same port
NumCallers == 2
\* rows enqueued in one behaviour
MaxEnqueue == 3
\* the maxBatchSize option of a batch iterator
MaxBatchSize == 2
\* the idleTimeoutMs option of an iterator, in clock ticks
IdleTimeoutTicks == 2
\* the 1000 ms sleep after an error, in clock ticks
ErrorSleepTicks == 1
\* rows enqueued in one behaviour of two concurrent iterators
MaxEnqueuePair == 2
\* calls of startRetentionScheduler in one behaviour
MaxStarts == 3
\* rows of sdk_sessions created in one behaviour
MaxSessions == 2
\* rows of observations and session_summaries inserted in one behaviour
MaxRows == 2
\* config.totalObservationCount: the LIMIT of the observation queries
TotalObservationCount == 1
\* config.sessionCount + SUMMARY_LOOKAHEAD: the LIMIT of the summary queries
SummaryLimit == 1
\* segments of a requested path
MaxPathSegments == 3
\* characters of the plan_path in active_plan.json
MaxPlanPathLen == 2
\* observations and summaries handed to the timeline, and their epochs
MaxObservations == 2
MaxSummaries == 3
MaxEpoch == 2
\* SSE connections in one behaviour, and frames written to one of them
MaxClients == 2
MaxFrames == 5

(***************************************************************************)
(* Program constants.                                                      *)
(***************************************************************************)
\* waitForHealth(port, 1000): the initial probe
InitialProbeMs == 1000
\* getPlatformTimeout(15000): port free wait, port-in-use health wait
RestartWaitMs == 15000
\* getPlatformTimeout(30000): health wait after spawn
SpawnWaitMs == 30000
\* the port of the worker (WORKER_PORT's default, as the tests use it)
PORT == 41777

VARIABLES
    \* ---- ensureWorkerDaemon ----
    epc,        \* epc[c]: where call c of ensureWorkerDaemon is suspended
    calls,      \* calls[c]: the dependency calls made by call c, in order
    eresult,    \* eresult[c]: what call c returned (meaningful when epc[c] = "done")
    pidFile,    \* the PID file: NoPidFile or [pid, port]
    nextPid,    \* the pid the next successful spawn yields
    \* ---- SessionQueueProcessor ----
    store,      \* the pending-message table: the rows not yet claimed, by id
    enqueued,   \* every row ever enqueued, in enqueue order (history)
    iters,      \* iters[i]: iterator i (its options, its position, its output)
    \* ---- RetentionScheduler ----
    startupTimeout,     \* the module's startupTimeout: a timer handle, or Null
    retentionInterval,  \* the module's retentionInterval: a timer handle, or Null
    liveTimeouts,       \* the setTimeout timers that are armed
    liveIntervals,      \* the setInterval timers that are armed
    owner,              \* owner[h]: the startRetentionScheduler call that timer h stems from
    startupRuns,        \* the start calls whose startup callback awaits its retention run
    dailyRuns,          \* the intervals whose callback awaits its retention run
    stopped,            \* stopRetentionScheduler returned and no start call followed
    failedRuns,         \* the kinds of run whose error was caught and logged so far
    \* ---- plan store, plan routes, plan-scoped queries ----
    sdkSessions,    \* the ids of the rows of sdk_sessions
    nextSessionId,  \* the id the next createSDKSession yields (AUTOINCREMENT)
    sessionPlans,   \* the rows of session_plans
    dbManager,      \* PlanRoutes was constructed with a DatabaseManager
    sseBroadcaster, \* PlanRoutes was constructed with an SSEBroadcaster
    planRequest,    \* the last request a plan route served, and its outcome
    lastPath,       \* lastPath[s]: planPath of the latest associatePlan since s was cleared
    lastStatus,     \* lastStatus[s]: status of the latest associatePlan or of a later updatePlanStatus
    observations,   \* the rows of observations, in insertion order
    summaries,      \* the rows of session_summaries, in insertion order
    queryResult,    \* what the last plan-scoped query returned, and its arguments
    planFiles,      \* the files of the file system, as resolved paths
    fileRequest,    \* the last plan-file request served, and its outcome
    \* ---- hook handlers ----
    hookCall,       \* the last handler executed and the environment it ran in
    hookFetch,      \* the request that execution sent to the worker, if any
    hookResult,     \* what that execution returned or threw
    \* ---- timeline ----
    tlObservations, \* the observations handed to buildTimeline, in input order
    tlSummaries,    \* all summaries queried, newest first
    tlDisplayed,    \* what prepareSummariesForTimeline returned
    timeline,       \* what buildTimeline returned
    \* ---- SSE stream ----
    sseClients,     \* the responses the broadcaster holds
    sseFrames,      \* sseFrames[c]: the frames written to client c, in order
    allProjects,    \* getAllProjects(): the current project list
    processingStatus \* the current isProcessing / queueDepth snapshot

ensureVars == <<epc, calls, eresult, pidFile, nextPid>>
queueVars == <<store, enqueued, iters>>
retentionVars == <<startupTimeout, retentionInterval, liveTimeouts, liveIntervals,
                   owner, startupRuns, dailyRuns, stopped, failedRuns>>
planVars == <<sdkSessions, nextSessionId, sessionPlans, dbManager, sseBroadcaster,
              planRequest, lastPath, lastStatus, observations, summaries, queryResult>>
fileVars == <<planFiles, fileRequest>>
hookVars == <<hookCall, hookFetch, hookResult>>
timelineVars == <<tlObservations, tlSummaries, tlDisplayed, timeline>>
sseVars == <<sseClients, sseFrames, allProjects, processingStatus>>
vars == <<epc, calls, eresult, pidFile, nextPid, store, enqueued, iters,
          startupTimeout, retentionInterval, liveTimeouts, liveIntervals,
          owner, startupRuns, dailyRuns, stopped, failedRuns,
          sdkSessions, nextSessionId, sessionPlans, dbManager, sseBroadcaster,
          planRequest, lastPath, lastStatus, observations, summaries, queryResult,
          planFiles, fileRequest,
          hookCall, hookFetch, hookResult,
          tlObservations, tlSummaries, tlDisplayed, timeline,
          sseClients, sseFrames, allProjects, processingStatus>>

(***************************************************************************)
(* ensureWorkerDaemon                                                      *)
(*                                                                         *)
(* The dependencies are injected (EnsureWorkerDeps), so each one is an     *)
(* oracle: it may return any value of its type.  A call is suspended at    *)
(* each await; one action is the arrival of the awaited result together    *)
(* with the synchronous code that follows it up to the next await.         *)
(***************************************************************************)
Callers == 1..NumCallers

NoPidFile == [pid |-> 0, port |-> 0]
NoResult == [ready |-> FALSE, error |-> "<pending>"]

ErrPortNotFreed == "Port did not free after version mismatch restart"
ErrPortInUse == "Port in use but worker not responding"
ErrSpawnFailed == "Failed to spawn worker daemon"
ErrHealthTimeout == "Worker failed to start (health check timeout)"

\* one dependency call as the call log keeps it: the dependency, the timeout
\* it was given (0: none), whether that timeout came out of
\* getPlatformTimeout, its boolean outcome (for spawnDaemon: a pid was
\* returned; for the void ones TRUE) and the pid involved (0: none)
DepCall(dep, timeout, wrapped, res, pid) ==
    [dep |-> dep, timeout |-> timeout, wrapped |-> wrapped, res |-> res, pid |-> pid]

Ready == [ready |-> TRUE, error |-> ""]
Fail(msg) == [ready |-> FALSE, error |-> msg]

\* line 54: the call starts and awaits waitForHealth(port, 1000)
CallEnsureWorkerDaemon(c) ==
    /\ epc[c] = "idle"
    /\ epc' = [epc EXCEPT ![c] = "waitForHealth1"]
    /\ UNCHANGED <<calls, eresult, pidFile, nextPid>>
    /\ UNCHANGED <<queueVars, retentionVars, planVars, fileVars, hookVars, timelineVars, sseVars>>

\* lines 54-55, 73: the initial probe returns
InitialHealthReturns(c, healthy) ==
    /\ epc[c] = "waitForHealth1"
    /\ calls' = [calls EXCEPT ![c] =
                    Append(@, DepCall("waitForHealth", InitialProbeMs, FALSE, healthy, 0))]
    /\ epc' = [epc EXCEPT ![c] = IF healthy THEN "checkVersionMatch" ELSE "isPortInUse"]
    /\ UNCHANGED <<eresult, pidFile, nextPid>>
    /\ UNCHANGED <<queueVars, retentionVars, planVars, fileVars, hookVars, timelineVars, sseVars>>

\* a plausible bug: a matching version does not return, it falls through to
\* the port check
CheckVersionMatchReturns_FallThrough(c, matches) ==
    /\ epc[c] = "checkVersionMatch"
    /\ calls' = [calls EXCEPT ![c] =
                    Append(@, DepCall("checkVersionMatch", 0, FALSE, matches, 0))]
    /\ epc' = [epc EXCEPT ![c] = IF matches THEN "isPortInUse" ELSE "httpShutdown"]
    /\ UNCHANGED <<eresult, pidFile, nextPid>>
    /\ UNCHANGED <<queueVars, retentionVars, planVars, fileVars, hookVars, timelineVars, sseVars>>

\* a plausible bug: a version mismatch is reported to the caller as a failure
CheckVersionMatchReturns_MismatchFails(c, matches) ==
    /\ epc[c] = "checkVersionMatch"
    /\ calls' = [calls EXCEPT ![c] =
                    Append(@, DepCall("checkVersionMatch", 0, FALSE, matches, 0))]
    /\ epc' = [epc EXCEPT ![c] = "done"]
    /\ eresult' = [eresult EXCEPT ![c] = IF matches THEN Ready ELSE Fail("Worker version mismatch")]
    /\ UNCHANGED <<pidFile, nextPid>>
    /\ UNCHANGED <<queueVars, retentionVars, planVars, fileVars, hookVars, timelineVars, sseVars>>

\* lines 55-62, 68-70: the version check returns
CheckVersionMatchReturns(c, matches) ==
    /\ epc[c] = "checkVersionMatch"
    /\ calls' = [calls EXCEPT ![c] =
                    Append(@, DepCall("checkVersionMatch", 0, FALSE, matches, 0))]
    /\ IF matches
       THEN /\ epc' = [epc EXCEPT ![c] = "done"]
            /\ eresult' = [eresult EXCEPT ![c] = Ready]
       ELSE /\ epc' = [epc EXCEPT ![c] = "httpShutdown"]
            /\ UNCHANGED eresult
    /\ UNCHANGED <<pidFile, nextPid>>
    /\ UNCHANGED <<queueVars, retentionVars, planVars, fileVars, hookVars, timelineVars, sseVars>>

\* lines 62-63: httpShutdown returns (its result is ignored); the timeout of
\* the port wait is taken from getPlatformTimeout
HttpShutdownReturns(c, ok) ==
    /\ epc[c] = "httpShutdown"
    /\ calls' = [calls EXCEPT ![c] =
                    @ \o <<DepCall("httpShutdown", 0, FALSE, ok, 0),
                           DepCall("getPlatformTimeout", RestartWaitMs, FALSE, TRUE, 0)>>]
    /\ epc' = [epc EXCEPT ![c] = "waitForPortFree"]
    /\ UNCHANGED <<eresult, pidFile, nextPid>>
    /\ UNCHANGED <<queueVars, retentionVars, planVars, fileVars, hookVars, timelineVars, sseVars>>

\* a plausible bug: the stale PID file is not removed before the respawn
WaitForPortFreeReturns_KeepPidFile(c, freed) ==
    /\ epc[c] = "waitForPortFree"
    /\ calls' = [calls EXCEPT ![c] =
                    Append(@, DepCall("waitForPortFree", RestartWaitMs, TRUE, freed, 0))]
    /\ IF freed
       THEN /\ epc' = [epc EXCEPT ![c] = "isPortInUse"]
            /\ UNCHANGED eresult
       ELSE /\ epc' = [epc EXCEPT ![c] = "done"]
            /\ eresult' = [eresult EXCEPT ![c] = Fail(ErrPortNotFreed)]
    /\ UNCHANGED <<pidFile, nextPid>>
    /\ UNCHANGED <<queueVars, retentionVars, planVars, fileVars, hookVars, timelineVars, sseVars>>

\* a plausible bug: the outcome of the wait for the port is not looked at
WaitForPortFreeReturns_IgnoreFreed(c, freed) ==
    /\ epc[c] = "waitForPortFree"
    /\ calls' = [calls EXCEPT ![c] =
                    @ \o <<DepCall("waitForPortFree", RestartWaitMs, TRUE, freed, 0),
                           DepCall("removePidFile", 0, FALSE, TRUE, 0)>>]
    /\ pidFile' = NoPidFile
    /\ epc' = [epc EXCEPT ![c] = "isPortInUse"]
    /\ UNCHANGED <<eresult, nextPid>>
    /\ UNCHANGED <<queueVars, retentionVars, planVars, fileVars, hookVars, timelineVars, sseVars>>

\* lines 63-67, 73: the wait for the port returns
WaitForPortFreeReturns(c, freed) ==
    /\ epc[c] = "waitForPortFree"
    /\ IF freed
       THEN /\ calls' = [calls EXCEPT ![c] =
                            @ \o <<DepCall("waitForPortFree", RestartWaitMs, TRUE, freed, 0),
                                   DepCall("removePidFile", 0, FALSE, TRUE, 0)>>]
            /\ pidFile' = NoPidFile
            /\ epc' = [epc EXCEPT ![c] = "isPortInUse"]
            /\ UNCHANGED eresult
       ELSE /\ calls' = [calls EXCEPT ![c] =
                            Append(@, DepCall("waitForPortFree", RestartWaitMs, TRUE, freed, 0))]
            /\ epc' = [epc EXCEPT ![c] = "done"]
            /\ eresult' = [eresult EXCEPT ![c] = Fail(ErrPortNotFreed)]
            /\ UNCHANGED pidFile
    /\ UNCHANGED nextPid
    /\ UNCHANGED <<queueVars, retentionVars, planVars, fileVars, hookVars, timelineVars, sseVars>>

\* a plausible bug: the pid is not tested, the PID file is written and the
\* health wait starts also when the spawn failed
IsPortInUseReturns_NoPidTest(c, inUse, spawned) ==
    /\ epc[c] = "isPortInUse"
    /\ IF inUse
       THEN /\ spawned = FALSE
            /\ calls' = [calls EXCEPT ![c] =
                            @ \o <<DepCall("isPortInUse", 0, FALSE, TRUE, 0),
                                   DepCall("getPlatformTimeout", RestartWaitMs, FALSE, TRUE, 0)>>]
            /\ epc' = [epc EXCEPT ![c] = "waitForHealth2"]
            /\ UNCHANGED <<eresult, pidFile, nextPid>>
       ELSE /\ calls' = [calls EXCEPT ![c] =
                            @ \o <<DepCall("isPortInUse", 0, FALSE, FALSE, 0),
                                   DepCall("spawnDaemon", 0, FALSE, spawned,
                                           IF spawned THEN nextPid ELSE 0),
                                   DepCall("writePidFile", 0, FALSE, TRUE,
                                           IF spawned THEN nextPid ELSE 0),
                                   DepCall("getPlatformTimeout", SpawnWaitMs, FALSE, TRUE, 0)>>]
            /\ pidFile' = [pid |-> IF spawned THEN nextPid ELSE 0, port |-> PORT]
            /\ nextPid' = IF spawned THEN nextPid + 1 ELSE nextPid
            /\ epc' = [epc EXCEPT ![c] = "waitForHealth3"]
            /\ UNCHANGED eresult
    /\ UNCHANGED <<queueVars, retentionVars, planVars, fileVars, hookVars, timelineVars, sseVars>>

\* lines 73-75, 80-88: isPortInUse returns; when the port is free the daemon
\* is spawned (spawned: spawnDaemon returned a pid), the PID file written
IsPortInUseReturns(c, inUse, spawned) ==
    /\ epc[c] = "isPortInUse"
    /\ IF inUse
       THEN /\ spawned = FALSE
            /\ calls' = [calls EXCEPT ![c] =
                            @ \o <<DepCall("isPortInUse", 0, FALSE, TRUE, 0),
                                   DepCall("getPlatformTimeout", RestartWaitMs, FALSE, TRUE, 0)>>]
            /\ epc' = [epc EXCEPT ![c] = "waitForHealth2"]
            /\ UNCHANGED <<eresult, pidFile, nextPid>>
       ELSE IF ~spawned
       THEN /\ calls' = [calls EXCEPT ![c] =
                            @ \o <<DepCall("isPortInUse", 0, FALSE, FALSE, 0),
                                   DepCall("spawnDaemon", 0, FALSE, FALSE, 0)>>]
            /\ epc' = [epc EXCEPT ![c] = "done"]
            /\ eresult' = [eresult EXCEPT ![c] = Fail(ErrSpawnFailed)]
            /\ UNCHANGED <<pidFile, nextPid>>
       ELSE /\ calls' = [calls EXCEPT ![c] =
                            @ \o <<DepCall("isPortInUse", 0, FALSE, FALSE, 0),
                                   DepCall("spawnDaemon", 0, FALSE, TRUE, nextPid),
                                   DepCall("writePidFile", 0, FALSE, TRUE, nextPid),
                                   DepCall("getPlatformTimeout", SpawnWaitMs, FALSE, TRUE, 0)>>]
            /\ pidFile' = [pid |-> nextPid, port |-> PORT]
            /\ nextPid' = nextPid + 1
            /\ epc' = [epc EXCEPT ![c] = "waitForHealth3"]
            /\ UNCHANGED eresult
    /\ UNCHANGED <<queueVars, retentionVars, planVars, fileVars, hookVars, timelineVars, sseVars>>

\* a plausible bug: the outcome of the health wait on a port that is in use
\* is not looked at
PortInUseHealthReturns_AlwaysReady(c, healthy) ==
    /\ epc[c] = "waitForHealth2"
    /\ calls' = [calls EXCEPT ![c] =
                    Append(@, DepCall("waitForHealth", RestartWaitMs, TRUE, healthy, 0))]
    /\ epc' = [epc EXCEPT ![c] = "done"]
    /\ eresult' = [eresult EXCEPT ![c] = Ready]
    /\ UNCHANGED <<pidFile, nextPid>>
    /\ UNCHANGED <<queueVars, retentionVars, planVars, fileVars, hookVars, timelineVars, sseVars>>

\* lines 75-77: the health wait on a port that is in use returns
PortInUseHealthReturns(c, healthy) ==
    /\ epc[c] = "waitForHealth2"
    /\ calls' = [calls EXCEPT ![c] =
                    Append(@, DepCall("waitForHealth", RestartWaitMs, TRUE, healthy, 0))]
    /\ epc' = [epc EXCEPT ![c] = "done"]
    /\ eresult' = [eresult EXCEPT ![c] = IF healthy THEN Ready ELSE Fail(ErrPortInUse)]
    /\ UNCHANGED <<pidFile, nextPid>>
    /\ UNCHANGED <<queueVars, retentionVars, planVars, fileVars, hookVars, timelineVars, sseVars>>

\* a plausible bug: the PID file stays when the spawned daemon never
\* becomes healthy
SpawnHealthReturns_KeepPidFile(c, healthy) ==
    /\ epc[c] = "waitForHealth3"
    /\ calls' = [calls EXCEPT ![c] =
                    Append(@, DepCall("waitForHealth", SpawnWaitMs, TRUE, healthy, 0))]
    /\ eresult' = [eresult EXCEPT ![c] = IF healthy THEN Ready ELSE Fail(ErrHealthTimeout)]
    /\ epc' = [epc EXCEPT ![c] = "done"]
    /\ UNCHANGED <<pidFile, nextPid>>
    /\ UNCHANGED <<queueVars, retentionVars, planVars, fileVars, hookVars, timelineVars, sseVars>>

\* lines 88-94: the health wait after the spawn returns
SpawnHealthReturns(c, healthy) ==
    /\ epc[c] = "waitForHealth3"
    /\ IF healthy
       THEN /\ calls' = [calls EXCEPT ![c] =
                            Append(@, DepCall("waitForHealth", SpawnWaitMs, TRUE, TRUE, 0))]
            /\ eresult' = [eresult EXCEPT ![c] = Ready]
            /\ UNCHANGED pidFile
       ELSE /\ calls' = [calls EXCEPT ![c] =
                            @ \o <<DepCall("waitForHealth", SpawnWaitMs, TRUE, FALSE, 0),
                                   DepCall("removePidFile", 0, FALSE, TRUE, 0)>>]
            /\ pidFile' = NoPidFile
            /\ eresult' = [eresult EXCEPT ![c] = Fail(ErrHealthTimeout)]
    /\ epc' = [epc EXCEPT ![c] = "done"]
    /\ UNCHANGED nextPid
    /\ UNCHANGED <<queueVars, retentionVars, planVars, fileVars, hookVars, timelineVars, sseVars>>

InitEnsure ==
    /\ epc = [c \in Callers |-> "idle"]
    /\ calls = [c \in Callers |-> <<>>]
    /\ eresult = [c \in Callers |-> NoResult]
    /\ pidFile = NoPidFile
    /\ nextPid = 1

NextEnsure ==
    \E c \in Callers :
        \/ CallEnsureWorkerDaemon(c)
        \/ \E healthy \in BOOLEAN : InitialHealthReturns(c, healthy)
        \/ \E matches \in BOOLEAN : CheckVersionMatchReturns(c, matches)
        \/ \E ok \in BOOLEAN : HttpShutdownReturns(c, ok)
        \/ \E freed \in BOOLEAN : WaitForPortFreeReturns(c, freed)
        \/ \E inUse, spawned \in BOOLEAN : IsPortInUseReturns(c, inUse, spawned)
        \/ \E healthy \in BOOLEAN : PortInUseHealthReturns(c, healthy)
        \/ \E healthy \in BOOLEAN : SpawnHealthReturns(c, healthy)

(***************************************************************************)
(* PendingMessageStore: the durable queue.  Its code is outside the        *)
(* sources at hand; it is modelled from the store contract:                *)
(* enqueue appends a row with a fresh monotonic id, claimAndDelete selects *)
(* the oldest row of the session, deletes it and returns it in one         *)
(* (synchronous) transaction, claimAndDeleteBatch does so for up to        *)
(* `limit` rows, toPendingMessage parses the payload and fails on a        *)
(* malformed one.                                                          *)
(***************************************************************************)
Sessions == {1, 2}

Row(id, session, malformed) == [id |-> id, session |-> session, malformed |-> malformed]

RECURSIVE TakeSession(_, _, _)
\* the first `limit` rows of session s in st, oldest first
TakeSession(st, s, limit) ==
    IF st = <<>> \/ limit = 0 THEN <<>>
    ELSE IF Head(st).session = s
         THEN <<Head(st)>> \o TakeSession(Tail(st), s, limit - 1)
         ELSE TakeSession(Tail(st), s, limit)

RowIds(rows) == {rows[k].id : k \in DOMAIN rows}
Ids(rows) == [k \in DOMAIN rows |-> rows[k].id]
Without(st, rows) == SelectSeq(st, LAMBDA r : r.id \notin RowIds(rows))

ClaimAndDeleteBatch(st, s, limit) ==
    LET rows == TakeSession(st, s, limit)
    IN  [rows |-> rows, store |-> Without(st, rows)]

ClaimAndDelete(st, s) == ClaimAndDeleteBatch(st, s, 1)

\* toPendingMessage(row) throws
ParseFails(row) == row.malformed

(***************************************************************************)
(* SessionQueueProcessor.createIterator / createBatchIterator              *)
(*                                                                         *)
(* An iterator is an async generator: it runs when its consumer asks for   *)
(* the next item, and is suspended at a yield (pc "yielded"), in            *)
(* waitForMessage (pc "parked"; "woken" once the promise is resolved and    *)
(* the continuation has not run yet) or in the sleep after an error (pc     *)
(* "sleeping").  Time is a clock tick; Date.now() - lastActivityTime is     *)
(* kept as sinceActivity, which stops counting at idleTimeoutMs since the   *)
(* code only compares it with idleTimeoutMs.                               *)
(***************************************************************************)
Iters == {1, 2}
Modes == {"single", "batch"}
NoTimer == -1

NewIterator(s, m) ==
    [sessionDbId |-> s, mode |-> m, pc |-> "created", aborted |-> FALSE,
     timer |-> NoTimer, listening |-> FALSE, messageReceived |-> FALSE,
     sinceActivity |-> 0, yields |-> <<>>, claimed |-> <<>>,
     exit |-> "", idleCalls |-> 0,
     \* history, for the properties
     notified |-> FALSE, threw |-> FALSE, claimedAborted |-> FALSE,
     \* the time since the latest yield (since the start before the first),
     \* which stops counting at idleTimeoutMs
     sinceYield |-> 0,
     \* the 'message' listeners, abort listeners and idle timers that this
     \* iterator has registered and that are still registered
     messageListeners |-> 0, abortListeners |-> 0, idleTimers |-> 0]

\* a plausible bug: the row is read and not deleted
IterClaim_Peek(i) ==
    LET r == IF iters[i].mode = "single"
             THEN ClaimAndDelete(store, iters[i].sessionDbId)
             ELSE ClaimAndDeleteBatch(store, iters[i].sessionDbId, MaxBatchSize)
    IN  [rows |-> r.rows, store |-> store]

\* a plausible bug: the batch claim is not given maxBatchSize
IterClaim_NoLimit(i) ==
    IF iters[i].mode = "single"
    THEN ClaimAndDelete(store, iters[i].sessionDbId)
    ELSE ClaimAndDeleteBatch(store, iters[i].sessionDbId, Len(store))

\* lines 38, 85: the claim of iterator i
IterClaim(i) ==
    IF iters[i].mode = "single"
    THEN ClaimAndDelete(store, iters[i].sessionDbId)
    ELSE ClaimAndDeleteBatch(store, iters[i].sessionDbId, MaxBatchSize)

\* a plausible bug: an error of the claim ends the iterator
CatchError_Return(it) ==
    [it EXCEPT !.pc = "done", !.exit = "error", !.threw = TRUE]

\* a plausible bug: the catch block applies the idle test
CatchError_IdleTest(it) ==
    IF it.sinceActivity >= IdleTimeoutTicks
    THEN [it EXCEPT !.pc = "done", !.exit = "idle", !.idleCalls = @ + 1, !.threw = TRUE]
    ELSE [it EXCEPT !.pc = "sleeping", !.timer = ErrorSleepTicks, !.threw = TRUE]

\* lines 60-64, 107-111: the catch block; the signal cannot have been
\* aborted between the loop test and a throw of the claim or of the parse
CatchError(it) ==
    [it EXCEPT !.pc = "sleeping", !.timer = ErrorSleepTicks, !.threw = TRUE]

\* a plausible bug: waitForMessage does not listen for "message"
WaitForMessage_NoListener(it) ==
    [it EXCEPT !.pc = "parked", !.listening = FALSE, !.timer = IdleTimeoutTicks,
               !.abortListeners = @ + 1, !.idleTimers = @ + 1]

\* lines 124-155: waitForMessage registers the listeners and the timer
WaitForMessage(it) ==
    [it EXCEPT !.pc = "parked", !.listening = TRUE, !.timer = IdleTimeoutTicks,
               !.messageListeners = @ + 1, !.abortListeners = @ + 1,
               !.idleTimers = @ + 1]

\* removing a listener or a timer that is not registered does nothing
Removed(n) == IF n > 0 THEN n - 1 ELSE 0

\* a plausible bug: cleanup does not call events.off, so the listener goes
\* only when an emit has run it (once)
Resolve_KeepsListener(it, received) ==
    [it EXCEPT !.pc = "woken", !.listening = FALSE, !.timer = NoTimer,
               !.messageReceived = received,
               !.messageListeners = IF received THEN Removed(@) ELSE @,
               !.abortListeners = Removed(@),
               !.idleTimers = Removed(@)]

\* lines 143-147: cleanup, and the promise resolves with `received`
Resolve(it, received) ==
    [it EXCEPT !.pc = "woken", !.listening = FALSE, !.timer = NoTimer,
               !.messageReceived = received,
               !.messageListeners = Removed(@),
               !.abortListeners = Removed(@),
               !.idleTimers = Removed(@)]

\* a plausible bug: the loop does not test the signal
WhileLoop_NoAbortTest(i, it, throws) ==
    IF throws
    THEN /\ iters' = [iters EXCEPT ![i] =
                         [CatchError(it) EXCEPT !.claimedAborted = @ \/ it.aborted]]
         /\ UNCHANGED store
    ELSE LET r == IterClaim(i)
             got == [it EXCEPT !.claimed = @ \o Ids(r.rows),
                               !.claimedAborted = @ \/ it.aborted]
         IN  /\ store' = r.store
             /\ IF r.rows # <<>>
                THEN IF \E k \in DOMAIN r.rows : ParseFails(r.rows[k])
                     THEN iters' = [iters EXCEPT ![i] =
                                       CatchError([got EXCEPT !.sinceActivity = 0])]
                     ELSE iters' = [iters EXCEPT ![i] =
                                       [got EXCEPT !.sinceActivity = 0,
                                                   !.pc = "yielded",
                                                   !.yields = Append(@, Ids(r.rows)),
                                                   !.sinceYield = 0]]
                ELSE iters' = [iters EXCEPT ![i] = WaitForMessage(got)]

\* lines 36-45, 60-65 (83-92, 107-112): one turn of the loop of iterator i,
\* whose state is `it` when the turn starts, up to the next suspension.
\* throws: the claim throws a transient error (the store is left as it was)
WhileLoop(i, it, throws) ==
    IF it.aborted
    THEN /\ iters' = [iters EXCEPT ![i] = [it EXCEPT !.pc = "done", !.exit = "cancelled"]]
         /\ UNCHANGED store
    ELSE IF throws
    THEN /\ iters' = [iters EXCEPT ![i] = CatchError(it)]
         /\ UNCHANGED store
    ELSE LET r == IterClaim(i)
             got == [it EXCEPT !.claimed = @ \o Ids(r.rows)]
         IN  /\ store' = r.store
             /\ IF r.rows # <<>>
                THEN \* lastActivityTime = Date.now(); the rows are parsed, then yielded
                     IF \E k \in DOMAIN r.rows : ParseFails(r.rows[k])
                     THEN iters' = [iters EXCEPT ![i] =
                                       CatchError([got EXCEPT !.sinceActivity = 0])]
                     ELSE iters' = [iters EXCEPT ![i] =
                                       [got EXCEPT !.sinceActivity = 0,
                                                   !.pc = "yielded",
                                                   !.yields = Append(@, Ids(r.rows)),
                                                   !.sinceYield = 0]]
                ELSE iters' = [iters EXCEPT ![i] = WaitForMessage(got)]

\* the consumer asks for the next item: the generator starts (lines 33-34)
\* or continues after its yield
ConsumerNext(i, throws) ==
    /\ iters[i].pc \in {"created", "yielded"}
    /\ WhileLoop(i, IF iters[i].pc = "created"
                    THEN [iters[i] EXCEPT !.sinceActivity = 0]
                    ELSE iters[i], throws)
    /\ UNCHANGED enqueued
    /\ UNCHANGED <<ensureVars, retentionVars, planVars, fileVars, hookVars, timelineVars, sseVars>>

\* a plausible bug: the idle exit does not invoke onIdleTimeout
WaitReturns_NoCallback(i, throws) ==
    /\ iters[i].pc = "woken"
    /\ IF ~iters[i].messageReceived /\ ~iters[i].aborted
       THEN IF iters[i].sinceActivity >= IdleTimeoutTicks
            THEN /\ iters' = [iters EXCEPT ![i] = [@ EXCEPT !.pc = "done", !.exit = "idle"]]
                 /\ UNCHANGED store
            ELSE WhileLoop(i, [iters[i] EXCEPT !.sinceActivity = 0], throws)
       ELSE WhileLoop(i, [iters[i] EXCEPT !.messageReceived = FALSE], throws)
    /\ UNCHANGED enqueued
    /\ UNCHANGED <<ensureVars, retentionVars, planVars, fileVars, hookVars, timelineVars, sseVars>>

\* a plausible bug: any wake-up of a signal not aborted is an idle exit
WaitReturns_IdleOnAnyWake(i, throws) ==
    /\ iters[i].pc = "woken"
    /\ IF ~iters[i].aborted
       THEN /\ iters' = [iters EXCEPT ![i] =
                            [@ EXCEPT !.pc = "done", !.exit = "idle",
                                      !.idleCalls = @ + 1]]
            /\ UNCHANGED store
       ELSE WhileLoop(i, [iters[i] EXCEPT !.messageReceived = FALSE], throws)
    /\ UNCHANGED enqueued
    /\ UNCHANGED <<ensureVars, retentionVars, planVars, fileVars, hookVars, timelineVars, sseVars>>

\* a plausible bug: onIdleTimeout is invoked before the signal is looked at
WaitReturns_CallbackOnAbort(i, throws) ==
    /\ iters[i].pc = "woken"
    /\ IF ~iters[i].messageReceived
       THEN IF iters[i].sinceActivity >= IdleTimeoutTicks \/ iters[i].aborted
            THEN /\ iters' = [iters EXCEPT ![i] =
                                 [@ EXCEPT !.pc = "done",
                                           !.exit = IF iters[i].aborted THEN "cancelled"
                                                    ELSE "idle",
                                           !.idleCalls = @ + 1]]
                 /\ UNCHANGED store
            ELSE WhileLoop(i, [iters[i] EXCEPT !.sinceActivity = 0], throws)
       ELSE WhileLoop(i, [iters[i] EXCEPT !.messageReceived = FALSE], throws)
    /\ UNCHANGED enqueued
    /\ UNCHANGED <<ensureVars, retentionVars, planVars, fileVars, hookVars, timelineVars, sseVars>>

\* lines 44-58 (91-105): the continuation of the await of waitForMessage
WaitReturns(i, throws) ==
    /\ iters[i].pc = "woken"
    /\ IF ~iters[i].messageReceived /\ ~iters[i].aborted
       THEN IF iters[i].sinceActivity >= IdleTimeoutTicks
            THEN \* onIdleTimeout?.(); return
                 /\ iters' = [iters EXCEPT ![i] =
                                 [@ EXCEPT !.pc = "done", !.exit = "idle",
                                           !.idleCalls = @ + 1]]
                 /\ UNCHANGED store
            ELSE WhileLoop(i, [iters[i] EXCEPT !.sinceActivity = 0], throws)
       ELSE WhileLoop(i, [iters[i] EXCEPT !.messageReceived = FALSE], throws)
    /\ UNCHANGED enqueued
    /\ UNCHANGED <<ensureVars, retentionVars, planVars, fileVars, hookVars, timelineVars, sseVars>>

\* line 63 (110): the sleep after an error is over
SleepReturns(i, throws) ==
    /\ iters[i].pc = "sleeping"
    /\ iters[i].timer = 0
    /\ WhileLoop(i, [iters[i] EXCEPT !.timer = NoTimer], throws)
    /\ UNCHANGED enqueued
    /\ UNCHANGED <<ensureVars, retentionVars, planVars, fileVars, hookVars, timelineVars, sseVars>>

\* lines 138-141: the idle timer of a parked iterator fires
OnTimeout(i) ==
    /\ iters[i].pc = "parked"
    /\ iters[i].timer = 0
    /\ iters' = [iters EXCEPT ![i] = Resolve(@, FALSE)]
    /\ UNCHANGED <<store, enqueued>>
    /\ UNCHANGED <<ensureVars, retentionVars, planVars, fileVars, hookVars, timelineVars, sseVars>>

\* a plausible bug: the signal is per session, an emit wakes the iterators
\* of session 1 only
EmitMessage_PerSession ==
    /\ \E i \in Iters : iters[i].listening
    /\ iters' = [i \in Iters |->
                    IF iters[i].listening /\ iters[i].sessionDbId = 1
                    THEN [Resolve(iters[i], TRUE) EXCEPT !.notified = TRUE]
                    ELSE iters[i]]
    /\ UNCHANGED <<store, enqueued>>
    /\ UNCHANGED <<ensureVars, retentionVars, planVars, fileVars, hookVars, timelineVars, sseVars>>

\* lines 126-129: events.emit("message") runs the listener of every parked
\* iterator, whatever its session
EmitMessage ==
    /\ \E i \in Iters : iters[i].listening
    /\ iters' = [i \in Iters |->
                    IF iters[i].listening
                    THEN [Resolve(iters[i], TRUE) EXCEPT !.notified = TRUE]
                    ELSE iters[i]]
    /\ UNCHANGED <<store, enqueued>>
    /\ UNCHANGED <<ensureVars, retentionVars, planVars, fileVars, hookVars, timelineVars, sseVars>>

\* lines 131-134: the controller of iterator i's signal aborts
Abort(i) ==
    /\ ~iters[i].aborted
    /\ iters[i].pc # "done"
    /\ iters' = [iters EXCEPT ![i] =
                    IF @.pc = "parked"
                    THEN [Resolve(@, FALSE) EXCEPT !.aborted = TRUE]
                    ELSE [@ EXCEPT !.aborted = TRUE]]
    /\ UNCHANGED <<store, enqueued>>
    /\ UNCHANGED <<ensureVars, retentionVars, planVars, fileVars, hookVars, timelineVars, sseVars>>

\* a writer appends a row for session s
Enqueue(s, malformed) ==
    /\ Len(enqueued) < MaxEnqueue
    /\ LET row == Row(Len(enqueued) + 1, s, malformed)
       IN  /\ store' = Append(store, row)
           /\ enqueued' = Append(enqueued, row)
    /\ UNCHANGED iters
    /\ UNCHANGED <<ensureVars, retentionVars, planVars, fileVars, hookVars, timelineVars, sseVars>>

Min(a, b) == IF a < b THEN a ELSE b

\* the clock advances by one tick; a timer that is due fires first, and so
\* does the continuation of a resolved promise
Tick ==
    /\ \A i \in Iters :
           /\ iters[i].pc \in {"parked", "sleeping"} => iters[i].timer > 0
           /\ iters[i].pc # "woken"
    /\ \E i \in Iters : iters[i].pc \notin {"created", "done"}
    /\ iters' = [i \in Iters |->
                    IF iters[i].pc \in {"created", "done"} THEN iters[i]
                    ELSE [iters[i] EXCEPT
                             !.timer = IF @ > 0 THEN @ - 1 ELSE @,
                             !.sinceActivity = Min(@ + 1, IdleTimeoutTicks),
                             !.sinceYield = Min(@ + 1, IdleTimeoutTicks)]]
    /\ UNCHANGED <<store, enqueued>>
    /\ UNCHANGED <<ensureVars, retentionVars, planVars, fileVars, hookVars, timelineVars, sseVars>>

Configs == {NewIterator(s, m) : s \in Sessions, m \in Modes}

\* one iterator at work (iterator 1, of any session and mode)
InitQueue ==
    /\ store = <<>>
    /\ enqueued = <<>>
    /\ iters \in {f \in [Iters -> Configs] : f[2] = NewIterator(1, "single")}

\* two iterators at work, on the same session or on two
InitQueuePair ==
    /\ store = <<>>
    /\ enqueued = <<>>
    /\ iters \in {f \in [Iters -> Configs] : f[1].sessionDbId = 1}

\* one iterator and its environment: claims may throw, payloads may be
\* malformed
NextQueue ==
    \/ \E throws \in BOOLEAN : ConsumerNext(1, throws)
    \/ \E throws \in BOOLEAN : WaitReturns(1, throws)
    \/ \E throws \in BOOLEAN : SleepReturns(1, throws)
    \/ OnTimeout(1)
    \/ Abort(1)
    \/ EmitMessage
    \/ \E s \in Sessions, malformed \in BOOLEAN : Enqueue(s, malformed)
    \/ Tick

\* two iterators over a store that does not throw and holds well-formed
\* payloads only (so that no iterator ever sleeps after an error)
NextQueuePair ==
    \/ \E i \in Iters : ConsumerNext(i, FALSE)
    \/ \E i \in Iters : WaitReturns(i, FALSE)
    \/ \E i \in Iters : OnTimeout(i)
    \/ \E i \in Iters : Abort(i)
    \/ EmitMessage
    \/ \E s \in Sessions : Len(enqueued) < MaxEnqueuePair /\ Enqueue(s, FALSE)
    \/ Tick

\* a batch iterator is created on a queue that holds n rows already
InitQueueDrain ==
    /\ enqueued \in UNION {{[k \in 1 .. n |-> Row(k, f[k], FALSE)] : f \in [1 .. n -> Sessions]} :
                           n \in 0 .. MaxEnqueue}
    /\ store = enqueued
    /\ iters = [i \in Iters |-> NewIterator(1, IF i = 1 THEN "batch" ELSE "single")]

\* one iterator, no further enqueue, no failing claim
NextQueueDrain ==
    \/ ConsumerNext(1, FALSE)
    \/ WaitReturns(1, FALSE)
    \/ OnTimeout(1)
    \/ Abort(1)
    \/ EmitMessage
    \/ Tick

\* one iterator and its writers; no claim fails, no payload is malformed
NextQueueLive ==
    \/ ConsumerNext(1, FALSE)
    \/ WaitReturns(1, FALSE)
    \/ OnTimeout(1)
    \/ Abort(1)
    \/ EmitMessage
    \/ \E s \in Sessions : Enqueue(s, FALSE)
    \/ Tick

\* one iterator over a store whose every claim throws
NextQueueFailing ==
    \/ ConsumerNext(1, TRUE)
    \/ SleepReturns(1, TRUE)
    \/ Abort(1)
    \/ \E s \in Sessions, malformed \in BOOLEAN : Enqueue(s, malformed)
    \/ Tick


(***************************************************************************)
(* RetentionScheduler                                                      *)
(*                                                                         *)
(* Timer handles are 1, 2, ... in the order setTimeout / setInterval hand  *)
(* them out.  The timer callbacks are async: each awaits runRetention, so  *)
(* a callback is suspended while its run is in progress and start / stop   *)
(* may be called in between.                                               *)
(***************************************************************************)
Null == 0

\* the calls of startRetentionScheduler made so far
Starts == {owner[h] : h \in DOMAIN owner}
LastStart == IF Starts = {} THEN 0 ELSE CHOOSE g \in Starts : \A k \in Starts : k <= g

\* what a retention run does: the policy is disabled (a no-op), the run
\* succeeds, or it throws (lines 210-231)
Outcomes == {"disabled", "ok", "throws"}

\* lines 268-278: clearTimeout / clearInterval of the handles the module
\* holds (clearing a timer that has fired does nothing)
StopRetentionScheduler ==
    /\ liveTimeouts' = liveTimeouts \ {startupTimeout}
    /\ liveIntervals' = liveIntervals \ {retentionInterval}
    /\ startupTimeout' = Null
    /\ retentionInterval' = Null
    /\ stopped' = TRUE
    /\ UNCHANGED <<owner, startupRuns, dailyRuns, failedRuns>>
    /\ UNCHANGED <<ensureVars, queueVars, planVars, fileVars, hookVars, timelineVars, sseVars>>

\* lines 238-262: stop, then arm the startup timer
StartRetentionScheduler ==
    /\ LastStart < MaxStarts
    /\ LET h == Len(owner) + 1
       IN  /\ liveTimeouts' = (liveTimeouts \ {startupTimeout}) \cup {h}
           /\ liveIntervals' = liveIntervals \ {retentionInterval}
           /\ startupTimeout' = h
           /\ retentionInterval' = Null
           /\ owner' = Append(owner, LastStart + 1)
    /\ stopped' = FALSE
    /\ UNCHANGED <<startupRuns, dailyRuns, failedRuns>>
    /\ UNCHANGED <<ensureVars, queueVars, planVars, fileVars, hookVars, timelineVars, sseVars>>

\* lines 243-245: a startup timer fires after 30 s; its callback awaits the
\* first retention run
StartupTimerFires(h) ==
    /\ h \in liveTimeouts
    /\ liveTimeouts' = liveTimeouts \ {h}
    /\ startupRuns' = startupRuns \cup {owner[h]}
    /\ UNCHANGED <<startupTimeout, retentionInterval, liveIntervals, owner,
                   dailyRuns, stopped, failedRuns>>
    /\ UNCHANGED <<ensureVars, queueVars, planVars, fileVars, hookVars, timelineVars, sseVars>>

\* a plausible bug: the first run is not in a try block, so its error ends
\* the callback before the interval is armed
StartupRunCompletes_NoCatch(g, outcome) ==
    /\ g \in startupRuns
    /\ startupRuns' = startupRuns \ {g}
    /\ IF outcome = "throws"
       THEN UNCHANGED <<retentionInterval, liveIntervals, owner>>
       ELSE LET h == Len(owner) + 1
            IN  /\ retentionInterval' = h
                /\ liveIntervals' = liveIntervals \cup {h}
                /\ owner' = Append(owner, g)
    /\ failedRuns' = IF outcome = "throws" THEN failedRuns \cup {"startup"} ELSE failedRuns
    /\ UNCHANGED <<startupTimeout, liveTimeouts, dailyRuns, stopped>>
    /\ UNCHANGED <<ensureVars, queueVars, planVars, fileVars, hookVars, timelineVars, sseVars>>

\* lines 245-258: the first run is over (an error is caught and logged);
\* the callback arms the daily interval
StartupRunCompletes(g, outcome) ==
    /\ g \in startupRuns
    /\ startupRuns' = startupRuns \ {g}
    /\ LET h == Len(owner) + 1
       IN  /\ retentionInterval' = h
           /\ liveIntervals' = liveIntervals \cup {h}
           /\ owner' = Append(owner, g)
    /\ failedRuns' = IF outcome = "throws" THEN failedRuns \cup {"startup"} ELSE failedRuns
    /\ UNCHANGED <<startupTimeout, liveTimeouts, dailyRuns, stopped>>
    /\ UNCHANGED <<ensureVars, queueVars, planVars, fileVars, hookVars, timelineVars, sseVars>>

\* lines 250-252: an armed interval fires after 24 h; its callback awaits a
\* retention run (one run per interval at a time)
IntervalFires(h) ==
    /\ h \in liveIntervals
    /\ h \notin dailyRuns
    /\ dailyRuns' = dailyRuns \cup {h}
    /\ UNCHANGED <<startupTimeout, retentionInterval, liveTimeouts, liveIntervals,
                   owner, startupRuns, stopped, failedRuns>>
    /\ UNCHANGED <<ensureVars, queueVars, planVars, fileVars, hookVars, timelineVars, sseVars>>

\* lines 251-255: a daily run is over (an error is caught and logged)
DailyRunCompletes(h, outcome) ==
    /\ h \in dailyRuns
    /\ dailyRuns' = dailyRuns \ {h}
    /\ failedRuns' = IF outcome = "throws" THEN failedRuns \cup {"daily"} ELSE failedRuns
    /\ UNCHANGED <<startupTimeout, retentionInterval, liveTimeouts, liveIntervals,
                   owner, startupRuns, stopped>>
    /\ UNCHANGED <<ensureVars, queueVars, planVars, fileVars, hookVars, timelineVars, sseVars>>

InitRetention ==
    /\ startupTimeout = Null
    /\ retentionInterval = Null
    /\ liveTimeouts = {}
    /\ liveIntervals = {}
    /\ owner = <<>>
    /\ startupRuns = {}
    /\ dailyRuns = {}
    /\ stopped = FALSE
    /\ failedRuns = {}

NextRetention ==
    \/ StartRetentionScheduler
    \/ StopRetentionScheduler
    \/ \E h \in liveTimeouts : StartupTimerFires(h)
    \/ \E g \in startupRuns, outcome \in Outcomes : StartupRunCompletes(g, outcome)
    \/ \E h \in liveIntervals : IntervalFires(h)
    \/ \E h \in dailyRuns, outcome \in Outcomes : DailyRunCompletes(h, outcome)

(***************************************************************************)
(* The plan association store (sqlite/plans/store.ts)                      *)
(*                                                                         *)
(* session_plans is a set of rows; its session_db_id column is the key of  *)
(* the upsert and references sdk_sessions(id) with ON DELETE CASCADE.  The *)
(* created_at and updated_at columns are left out.                         *)
(***************************************************************************)
\* the plan files sessions are associated with
PlanPaths == {"docs/plans/plan-a.md", "docs/plans/plan-b.md"}
\* PlanRoutes.VALID_PLAN_STATUSES
VALID_PLAN_STATUSES == {"PENDING", "COMPLETE", "VERIFIED"}
\* the null a lookup returns when no row matches
NoPlan == [session_db_id |-> 0, plan_path |-> "", plan_status |-> ""]
\* a row of session_plans
SessionPlan(s, p, st) == [session_db_id |-> s, plan_path |-> p, plan_status |-> st]
\* all the ids createSDKSession can yield
SessionIds == 1 .. MaxSessions
\* the content_session_id of the session with id s
ContentSessionId(s) == 100 + s

\* the foreign key of session_plans.session_db_id holds for a new row
ForeignKeyHolds(sessions, s) == s \in sessions

\* an INSERT without the ON CONFLICT clause
AssociatePlan_NoConflictClause(sp, s, p, st) == sp \cup {SessionPlan(s, p, st)}

\* a plausible bug: INSERT OR IGNORE, the first association of a session stays
AssociatePlan_KeepsFirst(sp, s, p, st) ==
    IF \E r \in sp : r.session_db_id = s THEN sp ELSE sp \cup {SessionPlan(s, p, st)}

\* associatePlan: INSERT ... ON CONFLICT(session_db_id) DO UPDATE
AssociatePlan(sp, s, p, st) ==
    IF \E r \in sp : r.session_db_id = s
    THEN {IF r.session_db_id = s THEN SessionPlan(s, p, st) ELSE r : r \in sp}
    ELSE sp \cup {SessionPlan(s, p, st)}

\* getPlanForSession: SELECT * FROM session_plans WHERE session_db_id = ? (.get)
GetPlanForSession(sp, s) ==
    IF \E r \in sp : r.session_db_id = s
    THEN CHOOSE r \in sp : r.session_db_id = s
    ELSE NoPlan

\* getPlanByContentSessionId: the same through a join with sdk_sessions
GetPlanByContentSessionId(sp, sessions, cid) ==
    IF \E r \in sp : \E s \in sessions : r.session_db_id = s /\ ContentSessionId(s) = cid
    THEN CHOOSE r \in sp : \E s \in sessions : r.session_db_id = s /\ ContentSessionId(s) = cid
    ELSE NoPlan

\* updatePlanStatus: UPDATE session_plans SET plan_status = ? WHERE session_db_id = ?
UpdatePlanStatus(sp, s, st) ==
    {IF r.session_db_id = s THEN [r EXCEPT !.plan_status = st] ELSE r : r \in sp}

\* a DELETE that removes the rows of every session
ClearPlanAssociation_AllRows(sp, s) == {}

\* clearPlanAssociation: DELETE FROM session_plans WHERE session_db_id = ?
ClearPlanAssociation(sp, s) == {r \in sp : r.session_db_id # s}

\* the latest associatePlan / updatePlanStatus arguments of a session: none yet
NoPath == ""
NoStatus == ""

\* createSDKSession: a new row of sdk_sessions with the next id
CreateSDKSession ==
    /\ nextSessionId <= MaxSessions
    /\ sdkSessions' = sdkSessions \cup {nextSessionId}
    /\ nextSessionId' = nextSessionId + 1
    /\ UNCHANGED <<sessionPlans, dbManager, sseBroadcaster, planRequest, lastPath,
                   lastStatus, observations, summaries, queryResult>>
    /\ UNCHANGED <<ensureVars, queueVars, retentionVars, fileVars, hookVars, timelineVars, sseVars>>

\* DELETE FROM sdk_sessions WHERE id = ?: the association goes with the session
DeleteSession(s) ==
    /\ s \in sdkSessions
    /\ sdkSessions' = sdkSessions \ {s}
    /\ sessionPlans' = {r \in sessionPlans : r.session_db_id # s}
    /\ planRequest' = [route |-> "deleteSession", sessionDbId |-> s, status |-> 0,
                       broadcast |-> FALSE, changed |-> sessionPlans' # sessionPlans]
    /\ lastPath' = [lastPath EXCEPT ![s] = NoPath]
    /\ lastStatus' = [lastStatus EXCEPT ![s] = NoStatus]
    /\ UNCHANGED <<nextSessionId, dbManager, sseBroadcaster, observations, summaries,
                   queryResult>>
    /\ UNCHANGED <<ensureVars, queueVars, retentionVars, fileVars, hookVars, timelineVars, sseVars>>

(***************************************************************************)
(* The plan association routes (PlanRoutes.ts)                             *)
(*                                                                         *)
(* One action per handler; a request is served in one step.  planRequest   *)
(* records the request served last: its route, the session it named, the   *)
(* HTTP status of the response, the plan of the response body, whether     *)
(* plan_association_changed was broadcast and whether session_plans        *)
(* changed.                                                                *)
(***************************************************************************)
\* a :sessionDbId parameter that is not an integer
NotAnInt == -1
\* a body field that is absent
Missing == ""
\* the statuses a request body may carry
BodyStatuses == VALID_PLAN_STATUSES \cup {"BOGUS", Missing}
\* the plan paths a request body may carry
BodyPaths == PlanPaths \cup {Missing}
\* before the first request
NoRequest == [route |-> "none", sessionDbId |-> 0, status |-> 0, plan |-> NoPlan,
              broadcast |-> FALSE, changed |-> FALSE]

\* broadcastPlanChange: this.sseBroadcaster?.broadcast(...)
BroadcastPlanChange == sseBroadcaster

\* the response is sent: what the request did
Served(route, id, status, plan, bc) ==
    planRequest' = [route |-> route, sessionDbId |-> id, status |-> status, plan |-> plan,
                    broadcast |-> bc, changed |-> sessionPlans' # sessionPlans]

\* an early return (badRequest, notFound, 503) or an exception caught by wrapHandler
Rejected(route, id, status) ==
    /\ UNCHANGED <<sessionPlans, lastPath, lastStatus>>
    /\ Served(route, id, status, NoPlan, FALSE)

\* POST /api/sessions/:sessionDbId/plan
HandleAssociatePlan(id, planPath, status) ==
    /\ IF id = NotAnInt THEN Rejected("associate", id, 400)
       ELSE IF planPath = Missing \/ status = Missing THEN Rejected("associate", id, 400)
       ELSE IF status \notin VALID_PLAN_STATUSES THEN Rejected("associate", id, 400)
       ELSE IF ~dbManager THEN Rejected("associate", id, 503)
       ELSE IF ~ForeignKeyHolds(sdkSessions, id) THEN Rejected("associate", id, 500)
       ELSE /\ sessionPlans' = AssociatePlan(sessionPlans, id, planPath, status)
            /\ lastPath' = [lastPath EXCEPT ![id] = planPath]
            /\ lastStatus' = [lastStatus EXCEPT ![id] = status]
            /\ Served("associate", id, 200, GetPlanForSession(sessionPlans', id),
                      BroadcastPlanChange)
    /\ UNCHANGED <<sdkSessions, nextSessionId, dbManager, sseBroadcaster, observations,
                   summaries, queryResult>>
    /\ UNCHANGED <<ensureVars, queueVars, retentionVars, fileVars, hookVars, timelineVars, sseVars>>

\* POST /api/sessions/by-content-id/:contentSessionId/plan
HandleAssociatePlanByContentId(cid, planPath, status) ==
    /\ IF planPath = Missing \/ status = Missing THEN Rejected("associateByContentId", 0, 400)
       ELSE IF status \notin VALID_PLAN_STATUSES THEN Rejected("associateByContentId", 0, 400)
       ELSE IF ~dbManager THEN Rejected("associateByContentId", 0, 503)
       ELSE IF ~\E s \in sdkSessions : ContentSessionId(s) = cid
       THEN Rejected("associateByContentId", 0, 404)
       ELSE LET row == CHOOSE s \in sdkSessions : ContentSessionId(s) = cid IN
            /\ sessionPlans' = AssociatePlan(sessionPlans, row, planPath, status)
            /\ lastPath' = [lastPath EXCEPT ![row] = planPath]
            /\ lastStatus' = [lastStatus EXCEPT ![row] = status]
            /\ Served("associateByContentId", row, 200,
                      GetPlanForSession(sessionPlans', row), BroadcastPlanChange)
    /\ UNCHANGED <<sdkSessions, nextSessionId, dbManager, sseBroadcaster, observations,
                   summaries, queryResult>>
    /\ UNCHANGED <<ensureVars, queueVars, retentionVars, fileVars, hookVars, timelineVars, sseVars>>

\* GET /api/sessions/:sessionDbId/plan
HandleGetSessionPlan(id) ==
    /\ UNCHANGED <<sessionPlans, lastPath, lastStatus>>
    /\ IF id = NotAnInt THEN Served("get", id, 400, NoPlan, FALSE)
       ELSE IF ~dbManager THEN Served("get", id, 503, NoPlan, FALSE)
       ELSE Served("get", id, 200, GetPlanForSession(sessionPlans, id), FALSE)
    /\ UNCHANGED <<sdkSessions, nextSessionId, dbManager, sseBroadcaster, observations,
                   summaries, queryResult>>
    /\ UNCHANGED <<ensureVars, queueVars, retentionVars, fileVars, hookVars, timelineVars, sseVars>>

\* GET /api/sessions/by-content-id/:contentSessionId/plan
HandleGetSessionPlanByContentId(cid) ==
    /\ UNCHANGED <<sessionPlans, lastPath, lastStatus>>
    /\ IF ~dbManager THEN Served("getByContentId", 0, 503, NoPlan, FALSE)
       ELSE Served("getByContentId", 0, 200,
                   GetPlanByContentSessionId(sessionPlans, sdkSessions, cid), FALSE)
    /\ UNCHANGED <<sdkSessions, nextSessionId, dbManager, sseBroadcaster, observations,
                   summaries, queryResult>>
    /\ UNCHANGED <<ensureVars, queueVars, retentionVars, fileVars, hookVars, timelineVars, sseVars>>

\* a clear handler that answers without announcing the change
HandleClearSessionPlan_NoBroadcast(id) ==
    /\ IF id = NotAnInt THEN Rejected("clear", id, 400)
       ELSE IF ~dbManager THEN Rejected("clear", id, 503)
       ELSE /\ sessionPlans' = ClearPlanAssociation(sessionPlans, id)
            /\ lastPath' = [lastPath EXCEPT ![id] = NoPath]
            /\ lastStatus' = [lastStatus EXCEPT ![id] = NoStatus]
            /\ Served("clear", id, 200, NoPlan, FALSE)
    /\ UNCHANGED <<sdkSessions, nextSessionId, dbManager, sseBroadcaster, observations,
                   summaries, queryResult>>
    /\ UNCHANGED <<ensureVars, queueVars, retentionVars, fileVars, hookVars, timelineVars, sseVars>>

\* DELETE /api/sessions/:sessionDbId/plan
HandleClearSessionPlan(id) ==
    /\ IF id = NotAnInt THEN Rejected("clear", id, 400)
       ELSE IF ~dbManager THEN Rejected("clear", id, 503)
       ELSE /\ sessionPlans' = ClearPlanAssociation(sessionPlans, id)
            /\ lastPath' = [lastPath EXCEPT ![id] = NoPath]
            /\ lastStatus' = [lastStatus EXCEPT ![id] = NoStatus]
            /\ Served("clear", id, 200, NoPlan, BroadcastPlanChange)
    /\ UNCHANGED <<sdkSessions, nextSessionId, dbManager, sseBroadcaster, observations,
                   summaries, queryResult>>
    /\ UNCHANGED <<ensureVars, queueVars, retentionVars, fileVars, hookVars, timelineVars, sseVars>>

\* a plausible bug: the status of a status update is not validated
HandleUpdatePlanStatus_NoValidation(id, status) ==
    /\ IF id = NotAnInt THEN Rejected("updateStatus", id, 400)
       ELSE IF status = Missing THEN Rejected("updateStatus", id, 400)
       ELSE IF ~dbManager THEN Rejected("updateStatus", id, 503)
       ELSE /\ sessionPlans' = UpdatePlanStatus(sessionPlans, id, status)
            /\ lastStatus' = IF lastPath[id] = NoPath THEN lastStatus
                              ELSE [lastStatus EXCEPT ![id] = status]
            /\ UNCHANGED lastPath
            /\ Served("updateStatus", id, 200, GetPlanForSession(sessionPlans', id),
                      BroadcastPlanChange)
    /\ UNCHANGED <<sdkSessions, nextSessionId, dbManager, sseBroadcaster, observations,
                   summaries, queryResult>>
    /\ UNCHANGED <<ensureVars, queueVars, retentionVars, fileVars, hookVars, timelineVars, sseVars>>

\* PUT /api/sessions/:sessionDbId/plan/status
HandleUpdatePlanStatus(id, status) ==
    /\ IF id = NotAnInt THEN Rejected("updateStatus", id, 400)
       ELSE IF status = Missing THEN Rejected("updateStatus", id, 400)
       ELSE IF status \notin VALID_PLAN_STATUSES THEN Rejected("updateStatus", id, 400)
       ELSE IF ~dbManager THEN Rejected("updateStatus", id, 503)
       ELSE /\ sessionPlans' = UpdatePlanStatus(sessionPlans, id, status)
            /\ lastStatus' = IF lastPath[id] = NoPath THEN lastStatus
                              ELSE [lastStatus EXCEPT ![id] = status]
            /\ UNCHANGED lastPath
            /\ Served("updateStatus", id, 200, GetPlanForSession(sessionPlans', id),
                      BroadcastPlanChange)
    /\ UNCHANGED <<sdkSessions, nextSessionId, dbManager, sseBroadcaster, observations,
                   summaries, queryResult>>
    /\ UNCHANGED <<ensureVars, queueVars, retentionVars, fileVars, hookVars, timelineVars, sseVars>>

(***************************************************************************)
(* The plan-scoped context queries (context/ObservationCompiler.ts)        *)
(*                                                                         *)
(* observations and summaries are kept in insertion order, which is the    *)
(* order of created_at_epoch; a row's owning session is the sdk_sessions   *)
(* row with its memory_session_id.                                         *)
(***************************************************************************)
\* the memory_session_id of the session with id s
MemorySessionId(s) == 200 + s
\* the projects rows belong to
Projects == {"test-project", "other-project"}
\* config.observationTypes and config.observationConcepts
ObservationTypes == {"discovery", "bugfix", "feature", "change"}
ObservationConcepts == {"general"}
\* the type and the concept of the rows inserted
RowTypes == {"discovery", "decision"}
RowConcepts == {"general", "how-it-works"}
\* the planPath arguments of the queries
QueryPaths == PlanPaths \cup {"docs/plans/nonexistent.md"}
\* before the first query
NoQuery == [query |-> "none", projects |-> {}, planPath |-> "", rows |-> <<>>]

\* the direct call associatePlan(db, sessionDbId, planPath, status)
CallAssociatePlan(s, p, st) ==
    /\ ForeignKeyHolds(sdkSessions, s)
    /\ sessionPlans' = AssociatePlan(sessionPlans, s, p, st)
    /\ lastPath' = [lastPath EXCEPT ![s] = p]
    /\ lastStatus' = [lastStatus EXCEPT ![s] = st]
    /\ UNCHANGED <<sdkSessions, nextSessionId, dbManager, sseBroadcaster, planRequest,
                   observations, summaries, queryResult>>
    /\ UNCHANGED <<ensureVars, queueVars, retentionVars, fileVars, hookVars, timelineVars, sseVars>>

\* the direct call clearPlanAssociation(db, sessionDbId)
CallClearPlanAssociation(s) ==
    /\ sessionPlans' = ClearPlanAssociation(sessionPlans, s)
    /\ planRequest' = [route |-> "clearPlanAssociation", sessionDbId |-> s, status |-> 0,
                       broadcast |-> FALSE, changed |-> sessionPlans' # sessionPlans]
    /\ lastPath' = [lastPath EXCEPT ![s] = NoPath]
    /\ lastStatus' = [lastStatus EXCEPT ![s] = NoStatus]
    /\ UNCHANGED <<sdkSessions, nextSessionId, dbManager, sseBroadcaster, observations,
                   summaries, queryResult>>
    /\ UNCHANGED <<ensureVars, queueVars, retentionVars, fileVars, hookVars, timelineVars, sseVars>>

\* INSERT INTO observations
InsertObservation(s, project, type, concept) ==
    /\ Len(observations) + Len(summaries) < MaxRows
    /\ observations' = Append(observations,
            [id |-> Len(observations) + 1, memory_session_id |-> MemorySessionId(s),
             project |-> project, type |-> type, concept |-> concept])
    /\ UNCHANGED <<sdkSessions, nextSessionId, sessionPlans, dbManager, sseBroadcaster,
                   planRequest, lastPath, lastStatus, summaries, queryResult>>
    /\ UNCHANGED <<ensureVars, queueVars, retentionVars, fileVars, hookVars, timelineVars, sseVars>>

\* INSERT INTO session_summaries
InsertSummary(s, project) ==
    /\ Len(observations) + Len(summaries) < MaxRows
    /\ summaries' = Append(summaries,
            [id |-> Len(summaries) + 1, memory_session_id |-> MemorySessionId(s),
             project |-> project])
    /\ UNCHANGED <<sdkSessions, nextSessionId, sessionPlans, dbManager, sseBroadcaster,
                   planRequest, lastPath, lastStatus, observations, queryResult>>
    /\ UNCHANGED <<ensureVars, queueVars, retentionVars, fileVars, hookVars, timelineVars, sseVars>>

\* LEFT JOIN sdk_sessions s ON row.memory_session_id = s.memory_session_id
\* LEFT JOIN session_plans sp ON s.id = sp.session_db_id: the sp.plan_path
\* values joined to a row (none: sp.plan_path IS NULL)
JoinedPlanPaths(row, sessions, sp) ==
    {r.plan_path : r \in {r \in sp : \E s \in sessions :
                            /\ MemorySessionId(s) = row.memory_session_id
                            /\ r.session_db_id = s}}

\* a WHERE clause with no test of sp.plan_path
PlanFilter_Unscoped(row, sessions, sp, planPath) == TRUE

\* a plausible bug: inner joins, a row with no session or no plan is dropped
PlanFilter_InnerJoin(row, sessions, sp, planPath) ==
    planPath \in JoinedPlanPaths(row, sessions, sp)

\* AND (sp.plan_path IS NULL OR sp.plan_path = ?)
PlanFilter(row, sessions, sp, planPath) ==
    \/ JoinedPlanPaths(row, sessions, sp) = {}
    \/ planPath \in JoinedPlanPaths(row, sessions, sp)

\* AND o.type IN (...) AND EXISTS (SELECT 1 FROM json_each(o.concepts) WHERE value IN (...))
ConfigFilter(row) == row.type \in ObservationTypes /\ row.concept \in ObservationConcepts

\* ORDER BY created_at_epoch DESC LIMIT ?
NewestFirst(rows, limit) ==
    LET desc == [i \in 1 .. Len(rows) |-> rows[Len(rows) + 1 - i]]
    IN SubSeq(desc, 1, Min(limit, Len(desc)))

\* queryObservationsExcludingOtherPlans
QueryObservationsExcludingOtherPlans(obs, sessions, sp, project, planPath) ==
    LET Where(o) == /\ o.project = project
                    /\ ConfigFilter(o)
                    /\ PlanFilter(o, sessions, sp, planPath)
    IN NewestFirst(SelectSeq(obs, Where), TotalObservationCount)

\* querySummariesExcludingOtherPlans
QuerySummariesExcludingOtherPlans(sums, sessions, sp, project, planPath) ==
    LET Where(ss) == /\ ss.project = project
                     /\ PlanFilter(ss, sessions, sp, planPath)
    IN NewestFirst(SelectSeq(sums, Where), SummaryLimit)

\* queryObservationsMultiExcludingOtherPlans
QueryObservationsMultiExcludingOtherPlans(obs, sessions, sp, projects, planPath) ==
    LET Where(o) == /\ o.project \in projects
                    /\ ConfigFilter(o)
                    /\ PlanFilter(o, sessions, sp, planPath)
    IN NewestFirst(SelectSeq(obs, Where), TotalObservationCount)

\* querySummariesMultiExcludingOtherPlans
QuerySummariesMultiExcludingOtherPlans(sums, sessions, sp, projects, planPath) ==
    LET Where(ss) == /\ ss.project \in projects
                     /\ PlanFilter(ss, sessions, sp, planPath)
    IN NewestFirst(SelectSeq(sums, Where), SummaryLimit)

\* a plan-scoped query is run: generateContext with input.planPath (lines 139-147)
RunQuery(query, projects, planPath, rows) ==
    /\ queryResult' = [query |-> query, projects |-> projects, planPath |-> planPath,
                       rows |-> rows]
    /\ UNCHANGED <<sdkSessions, nextSessionId, sessionPlans, dbManager, sseBroadcaster,
                   planRequest, lastPath, lastStatus, observations, summaries>>
    /\ UNCHANGED <<ensureVars, queueVars, retentionVars, fileVars, hookVars, timelineVars, sseVars>>

RunObservationsQuery(project, planPath) ==
    RunQuery("observations", {project}, planPath,
             QueryObservationsExcludingOtherPlans(observations, sdkSessions, sessionPlans,
                                                  project, planPath))

RunSummariesQuery(project, planPath) ==
    RunQuery("summaries", {project}, planPath,
             QuerySummariesExcludingOtherPlans(summaries, sdkSessions, sessionPlans,
                                               project, planPath))

RunObservationsMultiQuery(projects, planPath) ==
    RunQuery("observations", projects, planPath,
             QueryObservationsMultiExcludingOtherPlans(observations, sdkSessions,
                                                       sessionPlans, projects, planPath))

RunSummariesMultiQuery(projects, planPath) ==
    RunQuery("summaries", projects, planPath,
             QuerySummariesMultiExcludingOtherPlans(summaries, sdkSessions, sessionPlans,
                                                    projects, planPath))

(***************************************************************************)
(* The plan file routes (PlanRoutes.handleGetPlanContent, handleDeletePlan)*)
(*                                                                         *)
(* A path is a sequence of segments and a segment a sequence of tokens; a  *)
(* token stands for the characters of its name, and no token is a prefix   *)
(* of another, so that a prefix of the token string is a prefix of the     *)
(* character string.                                                       *)
(***************************************************************************)
SegProj == <<"proj">>
SegDocs == <<"docs">>
SegPlans == <<"plans">>
SegPlansOld == <<"plans", "-old">>
SegDotDot == <<"..">>
SegPlanMd == <<"a", ".md">>
\* the segments of the paths requested
PathSegments == {SegDocs, SegPlans, SegPlansOld, SegDotDot, SegPlanMd}
\* the paths a request may carry in its path query parameter
RequestedPaths ==
    [absolute : BOOLEAN,
     segs : UNION {[1 .. n -> PathSegments] : n \in 1 .. MaxPathSegments}]
\* a request without the path query parameter
NoRequestedPath == [absolute |-> FALSE, segs |-> <<>>]
\* process.env.CLAUDE_PROJECT_ROOT || process.cwd()
ProjectRoot == <<SegProj>>
\* before the first request
NoFileRequest == [route |-> "none", path |-> NoRequestedPath, status |-> 0, touched |-> <<>>]

\* path.normalize: ".." removes the segment before it, nothing at the root
RECURSIVE Normalize(_, _)
Normalize(done, rest) ==
    IF rest = <<>> THEN done
    ELSE IF Head(rest) = SegDotDot
    THEN Normalize(IF done = <<>> THEN <<>> ELSE SubSeq(done, 1, Len(done) - 1), Tail(rest))
    ELSE Normalize(Append(done, Head(rest)), Tail(rest))

\* path.resolve(projectRoot, requestedPath): an absolute path, as segments
PathResolve(root, p) ==
    IF p.absolute THEN Normalize(<<>>, p.segs) ELSE Normalize(<<>>, root \o p.segs)

\* path.join(projectRoot, "docs", "plans"), resolved
PlansDir == PathResolve(<<>>, [absolute |-> TRUE, segs |-> ProjectRoot \o <<SegDocs, SegPlans>>])

\* the string of an absolute path
RECURSIVE PathString(_)
PathString(segs) ==
    IF segs = <<>> THEN <<>>
    ELSE <<"/">> \o Head(segs) \o PathString(Tail(segs))

\* String.prototype.startsWith
StartsWith(str, prefix) ==
    Len(prefix) <= Len(str) /\ SubSeq(str, 1, Len(prefix)) = prefix

\* String.prototype.endsWith, for a suffix of one token
EndsWith(str, suffix) == str # <<>> /\ str[Len(str)] = suffix

\* !resolvedPath.startsWith(normalizedPlansDir) || !resolvedPath.endsWith(".md")
AccessDenied(resolvedPath) ==
    \/ ~StartsWith(PathString(resolvedPath), PathString(PlansDir))
    \/ ~EndsWith(PathString(resolvedPath), ".md")

\* getActiveSpecs: the .md files of the plans directory
GetActiveSpecs(files) ==
    {f \in files : /\ Len(f) = Len(PlansDir) + 1
                   /\ SubSeq(f, 1, Len(PlansDir)) = PlansDir
                   /\ EndsWith(f[Len(f)], ".md")}

\* the response is sent
FileServed(route, p, status, touched) ==
    fileRequest' = [route |-> route, path |-> p, status |-> status, touched |-> touched]

\* GET /api/plan/content
HandleGetPlanContent(p) ==
    /\ IF p = NoRequestedPath
       THEN IF GetActiveSpecs(planFiles) = {}
            THEN FileServed("getPlanContent", p, 404, <<>>)
            ELSE \E firstSpec \in GetActiveSpecs(planFiles) :
                    FileServed("getPlanContent", p, 200, firstSpec)
       ELSE IF AccessDenied(PathResolve(ProjectRoot, p))
       THEN FileServed("getPlanContent", p, 403, <<>>)
       ELSE IF PathResolve(ProjectRoot, p) \notin planFiles
       THEN FileServed("getPlanContent", p, 404, <<>>)
       ELSE FileServed("getPlanContent", p, 200, PathResolve(ProjectRoot, p))
    /\ UNCHANGED planFiles
    /\ UNCHANGED <<ensureVars, queueVars, retentionVars, planVars, hookVars, timelineVars, sseVars>>

\* DELETE /api/plan
HandleDeletePlan(p) ==
    /\ IF p = NoRequestedPath
       THEN FileServed("deletePlan", p, 400, <<>>) /\ UNCHANGED planFiles
       ELSE IF AccessDenied(PathResolve(ProjectRoot, p))
       THEN FileServed("deletePlan", p, 403, <<>>) /\ UNCHANGED planFiles
       ELSE IF PathResolve(ProjectRoot, p) \notin planFiles
       THEN FileServed("deletePlan", p, 404, <<>>) /\ UNCHANGED planFiles
       ELSE /\ planFiles' = planFiles \ {PathResolve(ProjectRoot, p)}
            /\ FileServed("deletePlan", p, 200, PathResolve(ProjectRoot, p))
    /\ UNCHANGED <<ensureVars, queueVars, retentionVars, planVars, hookVars, timelineVars, sseVars>>

\* the database and the route handler after construction
InitPlanStore ==
    /\ sdkSessions = {}
    /\ nextSessionId = 1
    /\ sessionPlans = {}
    /\ planRequest = NoRequest
    /\ lastPath = [s \in SessionIds |-> NoPath]
    /\ lastStatus = [s \in SessionIds |-> NoStatus]
    /\ observations = <<>>
    /\ summaries = <<>>
    /\ queryResult = NoQuery

\* new PlanRoutes(dbManager, sseBroadcaster)
InitPlans ==
    /\ InitPlanStore
    /\ dbManager = TRUE
    /\ sseBroadcaster = TRUE

\* the files of the project and around it
InitFiles ==
    /\ planFiles = {ProjectRoot \o <<SegDocs, SegPlans, SegPlanMd>>,
                    ProjectRoot \o <<SegDocs, SegPlans, SegDocs>>,
                    ProjectRoot \o <<SegDocs, SegPlansOld, SegPlanMd>>,
                    ProjectRoot \o <<SegPlanMd>>,
                    <<SegDocs, SegPlans, SegPlanMd>>}
    /\ fileRequest = NoFileRequest

\* the plan association routes, sessions created and deleted meanwhile
NextPlans ==
    \/ CreateSDKSession
    \/ \E s \in SessionIds : DeleteSession(s)
    \/ \E id \in SessionIds \cup {NotAnInt}, p \in BodyPaths, st \in BodyStatuses :
            HandleAssociatePlan(id, p, st)
    \/ \E s \in SessionIds, p \in BodyPaths, st \in BodyStatuses :
            HandleAssociatePlanByContentId(ContentSessionId(s), p, st)
    \/ \E id \in SessionIds \cup {NotAnInt} : HandleGetSessionPlan(id)
    \/ \E s \in SessionIds : HandleGetSessionPlanByContentId(ContentSessionId(s))
    \/ \E id \in SessionIds \cup {NotAnInt} : HandleClearSessionPlan(id)
    \/ \E id \in SessionIds \cup {NotAnInt}, st \in BodyStatuses :
            HandleUpdatePlanStatus(id, st)

\* the plan-scoped queries over a growing database
NextPlanQuery ==
    \/ CreateSDKSession
    \/ \E s \in sdkSessions, p \in PlanPaths : CallAssociatePlan(s, p, "PENDING")
    \/ \E s \in sdkSessions, project \in Projects, type \in RowTypes, concept \in RowConcepts :
            InsertObservation(s, project, type, concept)
    \/ \E s \in sdkSessions, project \in Projects : InsertSummary(s, project)
    \/ \E project \in Projects, p \in QueryPaths : RunObservationsQuery(project, p)
    \/ \E project \in Projects, p \in QueryPaths : RunSummariesQuery(project, p)
    \/ \E p \in QueryPaths : RunObservationsMultiQuery(Projects, p)
    \/ \E p \in QueryPaths : RunSummariesMultiQuery(Projects, p)

\* associations set, replaced and cleared while rows are written; a row may
\* be written under a memory_session_id that no row of sdk_sessions holds
\* (the id is rewritten by a remap that is not in the insert's transaction)
NextPlanScope ==
    \/ CreateSDKSession
    \/ \E s \in sdkSessions, p \in PlanPaths : CallAssociatePlan(s, p, "PENDING")
    \/ \E s \in sdkSessions : CallClearPlanAssociation(s)
    \/ \E s \in SessionIds, project \in Projects, type \in RowTypes, concept \in RowConcepts :
            InsertObservation(s, project, type, concept)
    \/ \E s \in SessionIds, project \in Projects : InsertSummary(s, project)

\* the plan file routes
NextPlanFiles ==
    \/ \E p \in RequestedPaths \cup {NoRequestedPath} : HandleGetPlanContent(p)
    \/ \E p \in RequestedPaths \cup {NoRequestedPath} : HandleDeletePlan(p)

(***************************************************************************)
(* The hook handlers (cli/handlers/context.ts, observation.ts,             *)
(* summarize.ts).  One execution of a handler is one step.                 *)
(*                                                                         *)
(* A string is a sequence of characters; the URL is a sequence whose       *)
(* elements are characters and the fixed pieces of the template.           *)
(***************************************************************************)
\* a UTF-16 code unit that is half of a surrogate pair, on its own
LoneSurrogate == "\\uD800"
\* the characters of a plan_path: unreserved, reserved, and not encodable
PathChars == {"a", "/", " ", LoneSurrogate}
\* the plan_path strings of active_plan.json; <<>> is the empty string
PlanPathStrings == UNION {[1 .. n -> PathChars] : n \in 0 .. MaxPlanPathLen}

\* encodeURIComponent escapes every character but the unreserved ones
EncodeChar(c) == CASE c = "/" -> "%2F" [] c = " " -> "%20" [] OTHER -> c
DecodeChar(c) == CASE c = "%2F" -> "/" [] c = "%20" -> " " [] OTHER -> c
\* encodeURIComponent throws URIError on a lone surrogate
Encodable(str) == \A i \in DOMAIN str : str[i] # LoneSurrogate
EncodeURIComponent(str) == [i \in DOMAIN str |-> EncodeChar(str[i])]
DecodeURIComponent(str) == [i \in DOMAIN str |-> DecodeChar(str[i])]

\* process.env.PILOT_SESSION_ID
Unset == "<unset>"
TEST_PID == "99999"
PilotSessionIds == {Unset, TEST_PID}

\* ~/.pilot/sessions/<id>/active_plan.json: absent, not readable as a file,
\* not JSON, the JSON value null, or a JSON object with or without plan_path
PlanFile(kind, hasKey, planPath) == [kind |-> kind, hasKey |-> hasKey, plan_path |-> planPath]
PlanFiles ==
    {PlanFile(k, FALSE, <<>>) : k \in {"missing", "unreadable", "malformed", "null", "object"}}
        \cup {PlanFile("object", TRUE, p) : p \in PlanPathStrings}

\* the answer of the worker to fetchWithAuth: 2xx, another status, none
Responses == {"ok", "notOk", "noAnswer"}

\* context.allProjects.join(",")
ProjectsParam == <<"a", ",", "b">>
\* `${baseUrl}/api/context/inject?projects=${encodeURIComponent(projectsParam)}`
InjectUrl ==
    <<"/api/context/inject?projects=">>
        \o [i \in DOMAIN ProjectsParam |->
                IF ProjectsParam[i] = "," THEN "%2C" ELSE ProjectsParam[i]]

NoHookCall ==
    [handler |-> "none", noContext |-> FALSE, pilotSessionId |-> Unset,
     planFile |-> PlanFile("missing", FALSE, <<>>), toolName |-> FALSE, cwd |-> FALSE,
     transcriptPath |-> FALSE, memoryDisabled |-> FALSE, excluded |-> FALSE,
     response |-> "ok"]
NoFetch == [sent |-> FALSE, url |-> <<>>]
Fetch(url) == [sent |-> TRUE, url |-> url]
NoHookResult ==
    [outcome |-> "none", continue |-> FALSE, suppressOutput |-> FALSE,
     hookSpecificOutput |-> FALSE, error |-> ""]
\* return { continue: true, suppressOutput: true }
ContinueSuppressed ==
    [outcome |-> "returned", continue |-> TRUE, suppressOutput |-> TRUE,
     hookSpecificOutput |-> FALSE, error |-> ""]
\* return { hookSpecificOutput: { hookEventName, additionalContext } }
ContextOutput ==
    [outcome |-> "returned", continue |-> FALSE, suppressOutput |-> FALSE,
     hookSpecificOutput |-> TRUE, error |-> ""]
\* throw new Error(msg), or an exception that passes through execute
Threw(msg) ==
    [outcome |-> "threw", continue |-> FALSE, suppressOutput |-> FALSE,
     hookSpecificOutput |-> FALSE, error |-> msg]

\* a plausible bug: the plan path is put into the URL as it is
PlanPathParam_Unencoded(pilotSessionId, file) ==
    IF pilotSessionId = Unset THEN <<>>
    ELSE IF file.kind # "object" THEN <<>>
    ELSE IF ~file.hasKey \/ file.plan_path = <<>> THEN <<>>
    ELSE <<"&planPath=">> \o file.plan_path

\* context.ts lines 34-48: what the block guarded by PILOT_SESSION_ID adds
\* to the URL.  existsSync false skips the file; a throw of readFileSync,
\* of JSON.parse, of the property access on null or of encodeURIComponent
\* is caught and leaves the URL as it was
PlanPathParam(pilotSessionId, file) ==
    IF pilotSessionId = Unset THEN <<>>
    ELSE IF file.kind = "missing" THEN <<>>
    ELSE IF file.kind \in {"unreadable", "malformed", "null"} THEN <<>>
    ELSE IF ~file.hasKey \/ file.plan_path = <<>> THEN <<>>
    ELSE IF ~Encodable(file.plan_path) THEN <<>>
    ELSE <<"&planPath=">> \o EncodeURIComponent(file.plan_path)

HookCall(handler) == [NoHookCall EXCEPT !.handler = handler]

\* contextHandler.execute
ContextHandlerExecute(noContext, pilotSessionId, file, response) ==
    /\ hookCall' = [HookCall("context") EXCEPT !.noContext = noContext,
                                                !.pilotSessionId = pilotSessionId,
                                                !.planFile = file,
                                                !.response = response]
    /\ IF noContext
       THEN /\ hookFetch' = NoFetch
            /\ hookResult' = ContextOutput
       ELSE /\ hookFetch' = Fetch(InjectUrl \o PlanPathParam(pilotSessionId, file))
            /\ hookResult' = CASE response = "noAnswer" -> Threw("fetch failed")
                               [] response = "notOk" -> Threw("Context generation failed")
                               [] OTHER -> ContextOutput
    /\ UNCHANGED <<ensureVars, queueVars, retentionVars, planVars, fileVars,
                   timelineVars, sseVars>>

\* observationHandler.execute
ObservationHandlerExecute(toolName, cwd, memoryDisabled, excluded, response) ==
    /\ hookCall' = [HookCall("observation") EXCEPT !.toolName = toolName, !.cwd = cwd,
                                                    !.memoryDisabled = memoryDisabled,
                                                    !.excluded = excluded,
                                                    !.response = response]
    /\ IF ~toolName
       THEN hookFetch' = NoFetch /\ hookResult' = Threw("observationHandler requires toolName")
       ELSE IF memoryDisabled \/ excluded
       THEN hookFetch' = NoFetch /\ hookResult' = ContinueSuppressed
       ELSE IF ~cwd
       THEN hookFetch' = NoFetch /\ hookResult' = Threw("Missing cwd in PostToolUse hook input")
       ELSE /\ hookFetch' = Fetch(<<"/api/sessions/observations">>)
            /\ hookResult' = CASE response = "noAnswer" -> Threw("fetch failed")
                               [] response = "notOk" -> Threw("Observation storage failed")
                               [] OTHER -> ContinueSuppressed
    /\ UNCHANGED <<ensureVars, queueVars, retentionVars, planVars, fileVars,
                   timelineVars, sseVars>>

\* summarizeHandler.execute
SummarizeHandlerExecute(transcriptPath, memoryDisabled, excluded, response) ==
    /\ hookCall' = [HookCall("summarize") EXCEPT !.transcriptPath = transcriptPath,
                                                  !.memoryDisabled = memoryDisabled,
                                                  !.excluded = excluded,
                                                  !.response = response]
    /\ IF memoryDisabled \/ excluded
       THEN hookFetch' = NoFetch /\ hookResult' = ContinueSuppressed
       ELSE IF ~transcriptPath
       THEN hookFetch' = NoFetch /\ hookResult' = Threw("Missing transcriptPath in Stop hook input")
       ELSE /\ hookFetch' = Fetch(<<"/api/sessions/summarize">>)
            /\ hookResult' = IF response = "noAnswer" THEN Threw("fetch failed")
                             ELSE ContinueSuppressed
    /\ UNCHANGED <<ensureVars, queueVars, retentionVars, planVars, fileVars,
                   timelineVars, sseVars>>

InitHooks ==
    /\ hookCall = NoHookCall
    /\ hookFetch = NoFetch
    /\ hookResult = NoHookResult

NextHooks ==
    \/ \E noContext \in BOOLEAN, id \in PilotSessionIds, file \in PlanFiles, r \in Responses :
            ContextHandlerExecute(noContext, id, file, r)
    \/ \E toolName, cwd, memoryDisabled, excluded \in BOOLEAN, r \in Responses :
            ObservationHandlerExecute(toolName, cwd, memoryDisabled, excluded, r)
    \/ \E transcriptPath, memoryDisabled, excluded \in BOOLEAN, r \in Responses :
            SummarizeHandlerExecute(transcriptPath, memoryDisabled, excluded, r)

(***************************************************************************)
(* The timeline (context/ObservationCompiler.ts: prepareSummariesFor-      *)
(* Timeline, buildTimeline)                                                *)
(***************************************************************************)
Epochs == 1 .. MaxEpoch
\* a row of observations or of session_summaries, as far as the timeline
\* reads it
TimelineRow(id, epoch) == [id |-> id, created_at_epoch |-> epoch]
\* sequences of at most n rows with ids 1..n, no id twice
RowSeqs(n) ==
    UNION {{q \in [1 .. k -> {TimelineRow(id, e) : id \in 1 .. n, e \in Epochs}] :
                \A i, j \in 1 .. k : i # j => q[i].id # q[j].id} : k \in 0 .. n}
\* ORDER BY created_at_epoch DESC
NewestFirstOrdered(q) ==
    \A i, j \in DOMAIN q : i < j => q[i].created_at_epoch >= q[j].created_at_epoch
\* before prepareSummariesForTimeline / buildTimeline has run
NotBuilt == [built |-> FALSE, items |-> <<>>]
Built(items) == [built |-> TRUE, items |-> items]

\* lines 508-523: the summary at (1-based) position k of displaySummaries is
\* shown at the epoch of allSummaries[k + 1] when k > 1 and that summary
\* exists, at its own epoch otherwise
PrepareSummariesForTimeline(displaySummaries, allSummaries) ==
    [k \in DOMAIN displaySummaries |->
        LET olderExists == k > 1 /\ k + 1 <= Len(allSummaries)
        IN  [id |-> displaySummaries[k].id,
             created_at_epoch |-> displaySummaries[k].created_at_epoch,
             displayEpoch |-> IF olderExists THEN allSummaries[k + 1].created_at_epoch
                              ELSE displaySummaries[k].created_at_epoch]]

\* an item of the timeline; epoch is what the comparator reads
ObservationItem(obs) == [type |-> "observation", id |-> obs.id, epoch |-> obs.created_at_epoch]
SummaryItem(sum) == [type |-> "summary", id |-> sum.id, epoch |-> sum.displayEpoch]

\* Array.prototype.sort with the comparator aEpoch - bEpoch: a stable sort,
\* items that compare equal keep their order
RECURSIVE StableSortByEpoch(_)
StableSortByEpoch(items) ==
    IF items = <<>> THEN <<>>
    ELSE LET sorted == StableSortByEpoch(SubSeq(items, 1, Len(items) - 1))
             last == items[Len(items)]
             keep == {i \in DOMAIN sorted : sorted[i].epoch <= last.epoch}
             n == Cardinality(keep)
         IN  SubSeq(sorted, 1, n) \o <<last>> \o SubSeq(sorted, n + 1, Len(sorted))

\* lines 528-541
BuildTimeline(obs, sums) ==
    StableSortByEpoch([i \in DOMAIN obs |-> ObservationItem(obs[i])]
                        \o [i \in DOMAIN sums |-> SummaryItem(sums[i])])

\* ObservationCompiler lines 94-95: the first `count` summaries are displayed
PrepareSummaries(count) ==
    /\ tlDisplayed = NotBuilt
    /\ count <= Len(tlSummaries)
    /\ tlDisplayed' = Built(PrepareSummariesForTimeline(SubSeq(tlSummaries, 1, count),
                                                       tlSummaries))
    /\ UNCHANGED <<tlObservations, tlSummaries, timeline>>
    /\ UNCHANGED <<ensureVars, queueVars, retentionVars, planVars, fileVars, hookVars, sseVars>>

\* ObservationCompiler line 96
CallBuildTimeline ==
    /\ tlDisplayed # NotBuilt
    /\ timeline = NotBuilt
    /\ timeline' = Built(BuildTimeline(tlObservations, tlDisplayed.items))
    /\ UNCHANGED <<tlObservations, tlSummaries, tlDisplayed>>
    /\ UNCHANGED <<ensureVars, queueVars, retentionVars, planVars, fileVars, hookVars, sseVars>>

InitTimeline ==
    /\ tlObservations = <<>>
    /\ tlSummaries = <<>>
    /\ tlDisplayed = NotBuilt
    /\ timeline = NotBuilt

\* any observations in any order, any summaries as the query returns them
InitTimelineInputs ==
    /\ tlObservations \in RowSeqs(MaxObservations)
    /\ tlSummaries \in {q \in RowSeqs(MaxSummaries) : NewestFirstOrdered(q)}
    /\ tlDisplayed = NotBuilt
    /\ timeline = NotBuilt

NextTimeline ==
    \/ \E count \in 0 .. MaxSummaries : PrepareSummaries(count)
    \/ CallBuildTimeline

(***************************************************************************)
(* The SSE stream (ViewerRoutes.handleSSEStream).  SSEBroadcaster is       *)
(* outside the sources at hand; it is modelled from its contract: it holds *)
(* the set of connected responses, broadcast(event) writes the event to    *)
(* each of them, a response that closes is dropped.                        *)
(***************************************************************************)
Clients == 1 .. MaxClients
SseProjects == {"test-project", "other-project"}
InitialLoad(projects) == [type |-> "initial_load", projects |-> projects, status |-> <<>>]
ProcessingStatusFrame(st) == [type |-> "processing_status", projects |-> {}, status |-> st]
OtherFrame == [type |-> "new_observation", projects |-> {}, status |-> <<>>]
\* isAnySessionProcessing() and getTotalActiveWork()
Snapshots == {<<FALSE, 0>>, <<TRUE, 1>>}

\* SSEBroadcaster.broadcast: the frame is written to every connected client
Broadcast(clients, frames, event) ==
    [c \in Clients |-> IF c \in clients THEN Append(frames[c], event) ELSE frames[c]]

\* part_006 lines 136-157: GET /stream from a new client c
HandleSSEStream(c) ==
    /\ c \notin sseClients
    /\ sseFrames[c] = <<>>
    /\ \A d \in sseClients : Len(sseFrames[d]) + 2 <= MaxFrames
    /\ LET connected == sseClients \cup {c}
           first == Broadcast(connected, sseFrames, InitialLoad(allProjects))
       IN  /\ sseClients' = connected
           /\ sseFrames' = Broadcast(connected, first, ProcessingStatusFrame(processingStatus))
    /\ UNCHANGED <<allProjects, processingStatus>>
    /\ UNCHANGED <<ensureVars, queueVars, retentionVars, planVars, fileVars, hookVars,
                   timelineVars>>

\* a session of a new project is stored
ProjectAdded(p) ==
    /\ p \notin allProjects
    /\ allProjects' = allProjects \cup {p}
    /\ UNCHANGED <<sseClients, sseFrames, processingStatus>>
    /\ UNCHANGED <<ensureVars, queueVars, retentionVars, planVars, fileVars, hookVars,
                   timelineVars>>

\* the work of the session manager changes
ProcessingChanges(st) ==
    /\ st # processingStatus
    /\ processingStatus' = st
    /\ UNCHANGED <<sseClients, sseFrames, allProjects>>
    /\ UNCHANGED <<ensureVars, queueVars, retentionVars, planVars, fileVars, hookVars,
                   timelineVars>>

\* another event is broadcast
BroadcastEvent ==
    /\ sseClients # {}
    /\ \A d \in sseClients : Len(sseFrames[d]) < MaxFrames
    /\ sseFrames' = Broadcast(sseClients, sseFrames, OtherFrame)
    /\ UNCHANGED <<sseClients, allProjects, processingStatus>>
    /\ UNCHANGED <<ensureVars, queueVars, retentionVars, planVars, fileVars, hookVars,
                   timelineVars>>

\* the connection of client c closes
ClientCloses(c) ==
    /\ c \in sseClients
    /\ sseClients' = sseClients \ {c}
    /\ UNCHANGED <<sseFrames, allProjects, processingStatus>>
    /\ UNCHANGED <<ensureVars, queueVars, retentionVars, planVars, fileVars, hookVars,
                   timelineVars>>

InitSSE ==
    /\ sseClients = {}
    /\ sseFrames = [c \in Clients |-> <<>>]
    /\ allProjects = {}
    /\ processingStatus = <<FALSE, 0>>

NextSSE ==
    \/ \E c \in Clients : HandleSSEStream(c)
    \/ \E p \in SseProjects : ProjectAdded(p)
    \/ \E st \in Snapshots : ProcessingChanges(st)
    \/ BroadcastEvent
    \/ \E c \in Clients : ClientCloses(c)

(***************************************************************************)
(* Specifications                                                          *)
(***************************************************************************)
\* the components added to every initial state
InitRest == InitHooks /\ InitTimeline /\ InitSSE

Init == InitEnsure /\ InitQueue /\ InitRetention /\ InitPlans /\ InitFiles /\ InitRest

SpecEnsure == Init /\ [][NextEnsure]_vars

SpecQueue == Init /\ [][NextQueue]_vars

InitPair == InitEnsure /\ InitQueuePair /\ InitRetention /\ InitPlans /\ InitFiles /\ InitRest

SpecQueuePair == InitPair /\ [][NextQueuePair]_vars

InitDrain == InitEnsure /\ InitQueueDrain /\ InitRetention /\ InitPlans /\ InitFiles /\ InitRest

SpecQueueDrain == InitDrain /\ [][NextQueueDrain]_vars

\* the consumer keeps asking for the next item, the continuation of a
\* resolved promise runs, and the writers' notifications are delivered
SpecQueueLive ==
    /\ Init /\ [][NextQueueLive]_vars
    /\ WF_vars(ConsumerNext(1, FALSE))
    /\ WF_vars(WaitReturns(1, FALSE))
    /\ WF_vars(EmitMessage)

SpecQueueFailing == Init /\ [][NextQueueFailing]_vars

SpecRetention == Init /\ [][NextRetention]_vars

\* any construction of the route handler: with or without a database, with
\* or without a broadcaster
InitRoutes ==
    /\ InitEnsure /\ InitQueue /\ iters[1] = NewIterator(1, "single") /\ InitRetention
    /\ InitPlanStore /\ dbManager \in BOOLEAN /\ sseBroadcaster \in BOOLEAN
    /\ InitFiles /\ InitRest

SpecPlans == InitRoutes /\ [][NextPlans]_vars

InitOne == Init /\ iters[1] = NewIterator(1, "single")

SpecPlanQuery == InitOne /\ [][NextPlanQuery]_vars

SpecPlanScope == InitOne /\ [][NextPlanScope]_vars

SpecPlanFiles == InitOne /\ [][NextPlanFiles]_vars

SpecHooks == InitOne /\ [][NextHooks]_vars

InitTimelineSpec ==
    /\ InitEnsure /\ InitQueue /\ iters[1] = NewIterator(1, "single") /\ InitRetention
    /\ InitPlans /\ InitFiles /\ InitHooks /\ InitTimelineInputs /\ InitSSE

SpecTimeline == InitTimelineSpec /\ [][NextTimeline]_vars

SpecSSE == InitOne /\ [][NextSSE]_vars

(***************************************************************************)
(* Properties of the queue iterators                                       *)
(***************************************************************************)
RECURSIVE Flatten(_)
Flatten(batches) ==
    IF batches = <<>> THEN <<>> ELSE Head(batches) \o Flatten(Tail(batches))

\* the row ids iterator i has yielded, batches concatenated
Delivered(i) == Flatten(iters[i].yields)

IsPrefix(a, b) == Len(a) <= Len(b) /\ SubSeq(b, 1, Len(a)) = a

NoRepeat(a, b, same) ==
    \A x \in DOMAIN a, y \in DOMAIN b : (~same \/ x # y) => a[x] # b[y]

\* C2: a row is returned by a claim to at most one consumer, once, and so is
\* delivered at most once, whatever the interleaving of two iterators on the
\* same session.
C2_ClaimedAtMostOnce ==
    \A i, j \in Iters :
        /\ NoRepeat(iters[i].claimed, iters[j].claimed, i = j)
        /\ NoRepeat(Delivered(i), Delivered(j), i = j)

C2_Witness ==
    \E i, j \in Iters :
        /\ i # j
        /\ iters[i].sessionDbId = iters[j].sessionDbId
        /\ iters[i].claimed # <<>> /\ iters[j].claimed # <<>>
        /\ Delivered(i) # <<>> /\ Delivered(j) # <<>>

\* the well-formed rows enqueued for session s, in enqueue order
SessionOrder(s) ==
    Ids(SelectSeq(enqueued, LAMBDA r : r.session = s /\ ~r.malformed))

\* C3: what the only iterator of a session has yielded is that session's
\* enqueue order (of the rows that parse) up to some point: nothing is
\* skipped, nothing reordered.
C3_FifoDelivery ==
    IsPrefix(Delivered(1), SessionOrder(iters[1].sessionDbId))

\* C4: once its signal is aborted an iterator claims nothing and yields
\* nothing more, and the next step it takes is to return.
C4_NothingAfterAbort ==
    /\ [](\A i \in Iters : ~iters[i].claimedAborted)
    /\ [][\A i \in Iters :
            iters[i].aborted =>
                /\ iters'[i].yields = iters[i].yields
                /\ iters'[i].claimed = iters[i].claimed
                /\ iters'[i].pc # iters[i].pc =>
                       iters'[i].pc = "done" /\ iters'[i].exit = "cancelled"]_vars

\* an iterator started with an aborted signal has returned, with rows of its
\* session left in the store
C4_Witness ==
    \E i \in Iters :
        /\ iters[i].aborted /\ iters[i].pc = "done" /\ iters[i].exit = "cancelled"
        /\ iters[i].yields = <<>>
        /\ \E k \in DOMAIN store : store[k].session = iters[i].sessionDbId

\* no row was ever enqueued for i's session, no notification reached i, its
\* signal is not aborted and no claim of it threw
Undisturbed(i) ==
    /\ ~iters[i].notified /\ ~iters[i].aborted /\ ~iters[i].threw
    /\ \A k \in DOMAIN enqueued : enqueued[k].session # iters[i].sessionDbId

\* C5: an undisturbed iterator parks at its first probe, its wait ends when
\* idleTimeoutMs have passed since it started (the clock cannot pass that
\* point before the timer has fired and the continuation has run), and it
\* then returns through the idle exit: nothing yielded, onIdleTimeout
\* invoked once.
C5_IdleExit ==
    \A i \in Iters :
        Undisturbed(i) =>
            /\ iters[i].yields = <<>>
            /\ iters[i].pc \in {"created", "parked", "woken", "done"}
            /\ iters[i].pc = "parked" =>
                   iters[i].timer + iters[i].sinceActivity = IdleTimeoutTicks
            /\ iters[i].pc = "woken" =>
                   ~iters[i].messageReceived /\ iters[i].sinceActivity = IdleTimeoutTicks
            /\ iters[i].pc = "done" =>
                   iters[i].exit = "idle" /\ iters[i].idleCalls = 1

C5_Witness ==
    \E i \in Iters :
        /\ Undisturbed(i)
        /\ iters[i].pc = "done" /\ iters[i].exit = "idle" /\ iters[i].idleCalls = 1


(***************************************************************************)
(* Properties of ensureWorkerDaemon                                        *)
(***************************************************************************)
Positions(c, dep) == {i \in DOMAIN calls[c] : calls[c][i].dep = dep}
Called(c, dep) == Positions(c, dep) # {}
Returned(c) == epc[c] = "done"
Before(c, d1, d2) ==
    \A i \in Positions(c, d1), j \in Positions(c, d2) : i < j

\* the first two dependency results of call c
InitialProbeHealthy(c) ==
    /\ Len(calls[c]) >= 1
    /\ calls[c][1].dep = "waitForHealth" /\ calls[c][1].res
VersionReported(c, matches) ==
    /\ InitialProbeHealthy(c)
    /\ Len(calls[c]) >= 2
    /\ calls[c][2].dep = "checkVersionMatch" /\ calls[c][2].res = matches

\* C1: a call returns {ready:true} only if checkVersionMatch reported a
\* match during that call, or the call itself spawned the daemon and then
\* saw it healthy.
C1_ReadyOnlyWhenCompatible ==
    \A c \in Callers :
        (Returned(c) /\ eresult[c].ready) =>
            \/ \E i \in Positions(c, "checkVersionMatch") : calls[c][i].res
            \/ \E i \in Positions(c, "spawnDaemon"), j \in Positions(c, "waitForHealth") :
                   i < j /\ calls[c][i].res /\ calls[c][j].res

\* C6: a call that finds the worker healthy with a matching version has
\* returned {ready:true} and has called neither spawnDaemon nor writePidFile.
C6_HealthyMatchingNoSpawn ==
    \A c \in Callers :
        VersionReported(c, TRUE) =>
            /\ Returned(c)
            /\ eresult[c] = Ready
            /\ ~Called(c, "spawnDaemon")
            /\ ~Called(c, "writePidFile")

C6_Witness ==
    \E c \in Callers : VersionReported(c, TRUE) /\ Returned(c)

\* the restart case of C7: healthy initial probe, version mismatch, the wait
\* for the port reports it free, and the last health wait of the call
\* reports a healthy worker
RestartCase(c) ==
    /\ Returned(c)
    /\ VersionReported(c, FALSE)
    /\ \E i \in Positions(c, "waitForPortFree") : calls[c][i].res
    /\ LET last == calls[c][Len(calls[c])]
       IN  last.dep = "waitForHealth" /\ last.res

RestartSequence(c) ==
    /\ Called(c, "httpShutdown") /\ Called(c, "waitForPortFree")
    /\ Called(c, "removePidFile")
    /\ Before(c, "httpShutdown", "waitForPortFree")
    /\ Before(c, "waitForPortFree", "removePidFile")
    /\ Before(c, "removePidFile", "spawnDaemon")
    /\ Cardinality(Positions(c, "spawnDaemon")) = 1
    /\ eresult[c] = Ready

C8_SpawnFailure ==
    \A c \in Callers :
        \A i \in Positions(c, "spawnDaemon") :
            ~calls[c][i].res =>
                /\ Returned(c)
                /\ eresult[c] = Fail(ErrSpawnFailed)
                /\ ~Called(c, "writePidFile")
                /\ \A j \in Positions(c, "waitForHealth") : j < i

C8_Witness ==
    \E c \in Callers :
        /\ Returned(c)
        /\ \E i \in Positions(c, "spawnDaemon") : ~calls[c][i].res

(***************************************************************************)
(* Properties of the retention scheduler                                   *)
(***************************************************************************)
\* C9: whenever startRetentionScheduler has been called again, every timer
\* of the earlier calls is cancelled: at most one startup timer and at most
\* one daily interval are armed, and they stem from the latest call.
C9_RestartCancelsEarlierTimers ==
    /\ Cardinality(liveTimeouts) <= 1
    /\ Cardinality(liveIntervals) <= 1
    /\ \A h \in liveTimeouts \cup liveIntervals : owner[h] = LastStart

\* C10: after stopRetentionScheduler has returned, and until the next start
\* call, no retention timer is armed (so no retention run can start).
C10_StopClearsAllTimers ==
    stopped => liveTimeouts = {} /\ liveIntervals = {}

(***************************************************************************)
(* Properties of the plan-scoped queries                                   *)
(***************************************************************************)
\* the rows of a table or of a result
Range(seq) == {seq[i] : i \in 1 .. Len(seq)}

\* the sessions that own a row
OwningSessions(row) == {s \in sdkSessions : MemorySessionId(s) = row.memory_session_id}

\* the owning session of the row is associated with plan P
AssociatedWith(row, P) ==
    \E s \in OwningSessions(row) : GetPlanForSession(sessionPlans, s).plan_path = P

\* the owning session of the row has no association
Unassociated(row) ==
    \A s \in OwningSessions(row) : GetPlanForSession(sessionPlans, s) = NoPlan

\* the owning session of the row is associated with a plan other than P
OtherPlan(row, P) ==
    \E s \in OwningSessions(row) :
        /\ GetPlanForSession(sessionPlans, s) # NoPlan
        /\ GetPlanForSession(sessionPlans, s).plan_path # P

\* the rows of the table a query for plan P over the projects is to return
InScope(table, projects, P) ==
    {row \in Range(table) : /\ row.project \in projects
                            /\ AssociatedWith(row, P) \/ Unassociated(row)}

\* no row of another plan; every row returned is in scope
Isolated(result, table, projects, P) ==
    /\ \A row \in Range(result) : ~OtherPlan(row, P)
    /\ Range(result) \subseteq InScope(table, projects, P)

\* the result is the newest rows in scope, newest first, up to the limit
NewestInScope(result, scope, limit) ==
    /\ Len(result) <= limit
    /\ \A i, j \in 1 .. Len(result) : i < j => result[i].id > result[j].id
    /\ \A row \in scope :
            \/ row \in Range(result)
            \/ Len(result) = limit /\ \A i \in 1 .. Len(result) : result[i].id > row.id

\* C11 as stated: a plan-scoped query for plan P returns every row of the
\* requested project(s) whose owning session is associated with P or has no
\* association, and never a row whose owning session is associated with a
\* different plan
C11_PlanIsolationEveryRow ==
    \A P \in QueryPaths : \A project \in Projects :
        LET o1 == QueryObservationsExcludingOtherPlans(observations, sdkSessions,
                                                       sessionPlans, project, P)
            s1 == QuerySummariesExcludingOtherPlans(summaries, sdkSessions,
                                                    sessionPlans, project, P)
            oM == QueryObservationsMultiExcludingOtherPlans(observations, sdkSessions,
                                                            sessionPlans, Projects, P)
            sM == QuerySummariesMultiExcludingOtherPlans(summaries, sdkSessions,
                                                         sessionPlans, Projects, P)
        IN /\ Isolated(o1, observations, {project}, P)
           /\ Isolated(s1, summaries, {project}, P)
           /\ Isolated(oM, observations, Projects, P)
           /\ Isolated(sM, summaries, Projects, P)
           /\ InScope(observations, {project}, P) \subseteq Range(o1)
           /\ InScope(summaries, {project}, P) \subseteq Range(s1)
           /\ InScope(observations, Projects, P) \subseteq Range(oM)
           /\ InScope(summaries, Projects, P) \subseteq Range(sM)

\* C11, amended: a plan-scoped query for plan P never returns a row whose
\* owning session is associated with a different plan, and returns, newest
\* first and up to its limit, the rows of the requested project(s) whose
\* owning session is associated with P or has no association (of the
\* observations: those that pass the configured type and concept filters)
C11_PlanIsolation ==
    \A P \in QueryPaths : \A project \in Projects :
        LET o1 == QueryObservationsExcludingOtherPlans(observations, sdkSessions,
                                                       sessionPlans, project, P)
            s1 == QuerySummariesExcludingOtherPlans(summaries, sdkSessions,
                                                    sessionPlans, project, P)
            oM == QueryObservationsMultiExcludingOtherPlans(observations, sdkSessions,
                                                            sessionPlans, Projects, P)
            sM == QuerySummariesMultiExcludingOtherPlans(summaries, sdkSessions,
                                                         sessionPlans, Projects, P)
            Passing(scope) == {row \in scope : row.type \in ObservationTypes
                                                /\ row.concept \in ObservationConcepts}
        IN /\ Isolated(o1, observations, {project}, P)
           /\ Isolated(s1, summaries, {project}, P)
           /\ Isolated(oM, observations, Projects, P)
           /\ Isolated(sM, summaries, Projects, P)
           /\ Range(o1) \cup Range(oM) \subseteq Passing(Range(observations))
           /\ NewestInScope(o1, Passing(InScope(observations, {project}, P)),
                            TotalObservationCount)
           /\ NewestInScope(s1, InScope(summaries, {project}, P), SummaryLimit)
           /\ NewestInScope(oM, Passing(InScope(observations, Projects, P)),
                            TotalObservationCount)
           /\ NewestInScope(sM, InScope(summaries, Projects, P), SummaryLimit)

\* a query for a plan has just returned a row of that plan while the table
\* holds a row of the same project that belongs to another plan
C11_Witness ==
    /\ queryResult.query = "observations"
    /\ queryResult.rows # <<>>
    /\ queryResult.rows = QueryObservationsMultiExcludingOtherPlans(observations,
            sdkSessions, sessionPlans, queryResult.projects, queryResult.planPath)
    /\ \E row \in Range(queryResult.rows) : AssociatedWith(row, queryResult.planPath)
    /\ \E row \in Range(observations) :
            /\ ConfigFilter(row)
            /\ row.project \in queryResult.projects
            /\ OtherPlan(row, queryResult.planPath)

(***************************************************************************)
(* Properties of the plan file routes                                      *)
(***************************************************************************)
\* the resolved path names something below <projectRoot>/docs/plans/
Descendant(resolvedPath) ==
    /\ Len(resolvedPath) > Len(PlansDir)
    /\ SubSeq(resolvedPath, 1, Len(PlansDir)) = PlansDir

\* the resolved path has the suffix .md
HasMdSuffix(resolvedPath) ==
    /\ resolvedPath # <<>>
    /\ resolvedPath[Len(resolvedPath)][Len(resolvedPath[Len(resolvedPath)])] = ".md"

\* C12: on the plan-content and plan-delete routes a requested path whose
\* resolved path is not a descendant of <projectRoot>/docs/plans/ or has
\* not the suffix .md is answered 403, and no file is read or deleted
C12_PathTraversalGuard ==
    (/\ fileRequest.route \in {"getPlanContent", "deletePlan"}
     /\ fileRequest.path # NoRequestedPath
     /\ \/ ~Descendant(PathResolve(ProjectRoot, fileRequest.path))
        \/ ~HasMdSuffix(PathResolve(ProjectRoot, fileRequest.path)))
    => (fileRequest.status = 403 /\ fileRequest.touched = <<>>)

(***************************************************************************)
(* Properties of the plan association store and its routes                 *)
(***************************************************************************)
\* the routes that write session_plans
MutatingRoutes == {"associate", "associateByContentId", "clear", "updateStatus"}
\* the routes that read it
ReadingRoutes == {"get", "getByContentId"}

\* C13 as stated: plan_association_changed is broadcast for every successful
\* associate, clear and status-update request and for no other request:
\* never for a request rejected with 4xx/503, never for a read, never for a
\* request that changed no association (a broadcaster being attached)
C13_BroadcastOnlyOnChange ==
    sseBroadcaster =>
        /\ (planRequest.route \in MutatingRoutes /\ planRequest.status = 200)
                => planRequest.broadcast
        /\ planRequest.status \in {400, 404, 503} => ~planRequest.broadcast
        /\ planRequest.route \in ReadingRoutes => ~planRequest.broadcast
        /\ ~planRequest.changed => ~planRequest.broadcast

\* C13, amended: with a broadcaster attached, plan_association_changed is
\* broadcast exactly for the associate, clear and status-update requests
\* answered 200, whether or not they changed an association; never for a
\* rejected or failed request, nor for a read; without a broadcaster, never
C13_BroadcastOnEverySuccess ==
    /\ sseBroadcaster =>
            (planRequest.broadcast <=>
                (planRequest.route \in MutatingRoutes /\ planRequest.status = 200))
    /\ ~sseBroadcaster => ~planRequest.broadcast
    /\ (planRequest.route \in MutatingRoutes \cup ReadingRoutes /\ planRequest.status # 200)
            => ~planRequest.changed

\* a clear request for a session without association was answered 200 and
\* announced
C13_Witness ==
    /\ sseBroadcaster
    /\ planRequest.route = "clear"
    /\ planRequest.status = 200
    /\ planRequest.broadcast
    /\ ~planRequest.changed
    /\ sessionPlans # {}

\* C14: after clearPlanAssociation(s), or after session s is deleted,
\* getPlanForSession(s) returns null whatever preceded, and the associations
\* of the other sessions are as they were
C14_ClearDropsOnlyThatRow ==
    [][(\/ planRequest'.route = "clear" /\ planRequest'.status = 200
        \/ planRequest'.route = "deleteSession")
       => /\ GetPlanForSession(sessionPlans', planRequest'.sessionDbId) = NoPlan
          /\ \A r \in sessionPlans' : r.session_db_id # planRequest'.sessionDbId
          /\ \A t \in SessionIds \ {planRequest'.sessionDbId} :
                /\ GetPlanForSession(sessionPlans', t) = GetPlanForSession(sessionPlans, t)
                /\ {r \in sessionPlans' : r.session_db_id = t}
                        = {r \in sessionPlans : r.session_db_id = t}]_vars

\* the association of a session was just cleared while another session
\* keeps its own
C14_Witness ==
    /\ planRequest.route = "clear"
    /\ planRequest.status = 200
    /\ planRequest.changed
    /\ GetPlanForSession(sessionPlans, planRequest.sessionDbId) = NoPlan
    /\ \E t \in SessionIds : GetPlanForSession(sessionPlans, t) # NoPlan

\* C15: each session has at most one plan association, and
\* getPlanForSession returns the path of the latest associatePlan of the
\* session with the status of its latest associatePlan or updatePlanStatus
\* (null when the session was not associated since it was cleared)
C15_UpsertOnSessionId ==
    \A s \in SessionIds :
        /\ Cardinality({r \in sessionPlans : r.session_db_id = s}) <= 1
        /\ lastPath[s] # NoPath
                => GetPlanForSession(sessionPlans, s) = SessionPlan(s, lastPath[s], lastStatus[s])
        /\ lastPath[s] = NoPath => GetPlanForSession(sessionPlans, s) = NoPlan

\* a session associated with a plan was associated again, with another plan
\* and status, while a second session has an association of its own
C15_Witness ==
    /\ planRequest.route = "associate"
    /\ planRequest.status = 200
    /\ planRequest.changed
    /\ Cardinality(sessionPlans) = 2
    /\ planRequest.plan = SessionPlan(planRequest.sessionDbId, "docs/plans/plan-b.md", "COMPLETE")
    /\ \E t \in SessionIds \ {planRequest.sessionDbId} :
            GetPlanForSession(sessionPlans, t).plan_status = "VERIFIED"

(***************************************************************************)
(* More properties of the queue iterators                                  *)
(***************************************************************************)
\* C16: a batch iterator yields only non-empty batches of at most
\* maxBatchSize rows; on a queue of n rows of its session and no further
\* enqueue the k-th batch holds min(maxBatchSize, n - (k-1) * maxBatchSize)
\* rows, and once the iterator has parked it has yielded
\* ceil(n / maxBatchSize) batches: all the rows, and no empty batch
C16_BatchSizes ==
    LET n == Len(SessionOrder(iters[1].sessionDbId))
        Y == iters[1].yields
    IN  /\ \A k \in DOMAIN Y :
                /\ Len(Y[k]) >= 1
                /\ Len(Y[k]) <= MaxBatchSize
                /\ Len(Y[k]) = Min(MaxBatchSize, n - (k - 1) * MaxBatchSize)
        /\ (iters[1].pc \in {"parked", "woken"} \/ iters[1].exit = "idle")
                => /\ Len(Y) * MaxBatchSize >= n
                   /\ (Len(Y) - 1) * MaxBatchSize < n
                   /\ Delivered(1) = SessionOrder(iters[1].sessionDbId)

\* the iterator has parked after a full batch and a last, shorter one
C16_Witness ==
    /\ iters[1].mode = "batch"
    /\ iters[1].pc = "parked"
    /\ Len(iters[1].yields) = 2
    /\ Len(iters[1].yields[1]) = MaxBatchSize
    /\ Len(iters[1].yields[2]) < MaxBatchSize

\* row r is in the queue, for the session of iterator 1
Queued(r) ==
    \E k \in DOMAIN store :
        store[k].id = r /\ store[k].session = iters[1].sessionDbId

\* C17: a row enqueued for the session of a live iterator is eventually
\* yielded by it, wherever the iterator is when the row arrives (not
\* started, between two items, parked), unless the iterator is cancelled or
\* has taken the idle exit before the notification reached it
C17_NoLostWakeup ==
    \A r \in 1 .. MaxEnqueue :
        Queued(r) ~> \/ \E k \in DOMAIN Delivered(1) : Delivered(1)[k] = r
                     \/ iters[1].aborted
                     \/ iters[1].exit = "idle"

\* the iterator parked on an empty queue, was woken by a notification and
\* has then yielded its first item
C17_Witness ==
    /\ iters[1].pc = "yielded"
    /\ iters[1].notified
    /\ ~iters[1].aborted
    /\ Len(iters[1].yields) = 1

\* C18: an iterator does not take the idle exit while less than
\* idleTimeoutMs have passed since its latest yield
C18_YieldResetsIdleTimer ==
    \A i \in Iters :
        (iters[i].exit = "idle" /\ iters[i].yields # <<>>)
            => iters[i].sinceYield >= IdleTimeoutTicks

\* an iterator that yielded has taken the idle exit
C18_Witness ==
    iters[1].exit = "idle" /\ iters[1].yields # <<>> /\ iters[1].notified

\* C19: onIdleTimeout is invoked at most once per iterator, and only by an
\* iterator that leaves through the idle exit: never by one that is
\* cancelled, parked or not
C19_IdleCallbackOnlyOnIdleExit ==
    \A i \in Iters :
        /\ iters[i].idleCalls <= 1
        /\ iters[i].idleCalls = 1 => (iters[i].pc = "done" /\ iters[i].exit = "idle")
        /\ iters[i].exit = "cancelled" => iters[i].idleCalls = 0
        /\ (iters[i].aborted /\ iters[i].exit # "idle") => iters[i].idleCalls = 0

\* an iterator that never claimed a row was cancelled after it had waited:
\* the cancellation found it parked
C19_Witness ==
    /\ iters[1].exit = "cancelled"
    /\ iters[1].idleCalls = 0
    /\ iters[1].sinceActivity >= 1
    /\ iters[1].claimed = <<>>
    /\ ~iters[1].threw /\ ~iters[1].notified

(***************************************************************************)
(* More properties of ensureWorkerDaemon                                   *)
(***************************************************************************)
\* no worker runs when the calls start: every initial probe finds none
NoWorkerAtStart ==
    \A c \in Callers : Len(calls[c]) >= 1 => ~calls[c][1].res

\* the spawnDaemon calls of all the callers together, as <<caller, position>>
SpawnCalls ==
    UNION {{<<c, i>> : i \in Positions(c, "spawnDaemon")} : c \in Callers}

\* the daemons those calls started
SpawnedPids ==
    {calls[ci[1]][ci[2]].pid : ci \in {x \in SpawnCalls : calls[x[1]][x[2]].res}}

\* the calls overlap: every call that has started is still running
CallsInFlight ==
    \A c \in Callers : ~Returned(c)

\* C20: concurrent calls that start with no worker running call spawnDaemon
\* at most once between them, so that at most one daemon is started and the
\* PID file, when written, describes it
C20_SingleInstance ==
    (NoWorkerAtStart /\ CallsInFlight) =>
        /\ Cardinality(SpawnCalls) <= 1
        /\ Cardinality(SpawnedPids) <= 1
        /\ pidFile # NoPidFile => pidFile.pid \in SpawnedPids

\* the port-contention case: the initial probe of call c found no healthy
\* worker and isPortInUse then reported the port taken
PortContention(c) ==
    /\ Len(calls[c]) >= 2
    /\ calls[c][1].dep = "waitForHealth" /\ ~calls[c][1].res
    /\ calls[c][2].dep = "isPortInUse" /\ calls[c][2].res

\* the last dependency call of call c
LastCall(c) == calls[c][Len(calls[c])]

\* C21: a call in the port-contention case never calls spawnDaemon or
\* writePidFile; once it has returned it has waited for health with the
\* platform timeout of 15 s and returned {ready:true} when that wait found
\* the worker healthy, {ready:false} with the port-in-use error otherwise
C21_PortContentionNeverSpawns ==
    \A c \in Callers :
        PortContention(c) =>
            /\ ~Called(c, "spawnDaemon")
            /\ ~Called(c, "writePidFile")
            /\ Returned(c) =>
                /\ LastCall(c).dep = "waitForHealth"
                /\ LastCall(c).timeout = RestartWaitMs /\ LastCall(c).wrapped
                /\ eresult[c] = IF LastCall(c).res THEN Ready ELSE Fail(ErrPortInUse)

C21_Witness ==
    \E c, d \in Callers :
        /\ PortContention(c) /\ Returned(c) /\ eresult[c] = Fail(ErrPortInUse)
        /\ PortContention(d) /\ Returned(d) /\ eresult[d] = Ready

\* C22: a call whose wait for the port after the version-mismatch shutdown
\* reported the port still taken has returned {ready:false} with the
\* port-did-not-free error and has called neither spawnDaemon nor
\* writePidFile
C22_PortNotFreedFails ==
    \A c \in Callers :
        \A i \in Positions(c, "waitForPortFree") :
            ~calls[c][i].res =>
                /\ Returned(c)
                /\ eresult[c] = Fail(ErrPortNotFreed)
                /\ ~Called(c, "spawnDaemon")
                /\ ~Called(c, "writePidFile")

C22_Witness ==
    \E c \in Callers :
        /\ VersionReported(c, FALSE)
        /\ Called(c, "httpShutdown")
        /\ \E i \in Positions(c, "waitForPortFree") : ~calls[c][i].res
        /\ Returned(c)

\* the pids call c wrote to the PID file
WrittenPids(c) == {calls[c][i].pid : i \in Positions(c, "writePidFile")}

\* C23: every writePidFile of a call directly follows its successful
\* spawnDaemon, carries the spawned pid and precedes the health wait; the
\* PID file on disk holds a written pid and the requested port; a call that
\* wrote the PID file and returned {ready:false} has called removePidFile
\* after the write, and the PID file no longer holds the pid it wrote
C23_PidFileHygiene ==
    /\ pidFile # NoPidFile =>
            /\ pidFile.port = PORT
            /\ \E c \in Callers : pidFile.pid \in WrittenPids(c)
    /\ \A c \in Callers :
        /\ \A i \in Positions(c, "spawnDaemon") :
                calls[c][i].res =>
                    /\ Len(calls[c]) > i
                    /\ calls[c][i + 1].dep = "writePidFile"
        /\ \A i \in Positions(c, "writePidFile") :
                /\ i > 1
                /\ calls[c][i - 1].dep = "spawnDaemon" /\ calls[c][i - 1].res
                /\ calls[c][i].pid = calls[c][i - 1].pid
                /\ \A j \in Positions(c, "waitForHealth") :
                        calls[c][j].timeout = SpawnWaitMs => i < j
                /\ (Returned(c) /\ ~eresult[c].ready) =>
                        /\ \E j \in Positions(c, "removePidFile") : i < j
                        /\ pidFile.pid # calls[c][i].pid

C23_Witness ==
    \E c \in Callers :
        /\ Called(c, "writePidFile")
        /\ Returned(c)
        /\ eresult[c] = Fail(ErrHealthTimeout)
        /\ pidFile = NoPidFile

\* the outcome of the last health wait of call c
LastHealthWait(c) ==
    LET P == Positions(c, "waitForHealth")
    IN  calls[c][CHOOSE i \in P : \A j \in P : j <= i].res

\* what a returned call that met a version mismatch reports, read from its
\* call log
MismatchOutcome(c) ==
    IF \E i \in Positions(c, "waitForPortFree") : ~calls[c][i].res
    THEN Fail(ErrPortNotFreed)
    ELSE IF \E i \in Positions(c, "isPortInUse") : calls[c][i].res
    THEN (IF LastHealthWait(c) THEN Ready ELSE Fail(ErrPortInUse))
    ELSE IF \E i \in Positions(c, "spawnDaemon") : ~calls[c][i].res
    THEN Fail(ErrSpawnFailed)
    ELSE IF LastHealthWait(c) THEN Ready ELSE Fail(ErrHealthTimeout)

RefusedAsClientError ==
    /\ planRequest'.status \in 400 .. 499
    /\ ~planRequest'.changed
    /\ sessionPlans' = sessionPlans

\* C24: every associate (by db id or by content id) and every status update
\* whose status is not PENDING, COMPLETE or VERIFIED is answered with a 4xx
\* status and leaves the association store as it was, and no stored
\* association holds a status outside that set
C24_StatusValidatedOnWrite ==
    /\ [](\A r \in sessionPlans : r.plan_status \in VALID_PLAN_STATUSES)
    /\ [][\A st \in BodyStatuses \ VALID_PLAN_STATUSES :
            /\ \A id \in SessionIds \cup {NotAnInt}, p \in BodyPaths :
                    HandleAssociatePlan(id, p, st) => RefusedAsClientError
            /\ \A s \in SessionIds, p \in BodyPaths :
                    HandleAssociatePlanByContentId(ContentSessionId(s), p, st)
                        => RefusedAsClientError
            /\ \A id \in SessionIds \cup {NotAnInt} :
                    HandleUpdatePlanStatus(id, st) => RefusedAsClientError]_vars

\* a status update with an unknown status was refused while the session
\* holds an association and the database is available
C24_Witness ==
    /\ planRequest.route = "updateStatus"
    /\ planRequest.status = 400
    /\ planRequest.sessionDbId \in SessionIds
    /\ dbManager
    /\ GetPlanForSession(sessionPlans, planRequest.sessionDbId) # NoPlan

(***************************************************************************)
(* Properties of the hook handlers                                         *)
(***************************************************************************)
\* the handler sent its request and the worker did not answer with an OK
WorkerError ==
    /\ hookCall.handler \in {"context", "observation", "summarize"}
    /\ hookFetch.sent
    /\ hookCall.response \in {"notOk", "noAnswer"}

\* C25: when the worker fails to answer or answers with a status that is
\* not OK, the handler (context, observation, summarize) returns a result
\* with continue = true and suppressOutput = true and raises no error
C25_HookNeverAborts ==
    WorkerError =>
        /\ hookResult.outcome = "returned"
        /\ hookResult.continue
        /\ hookResult.suppressOutput

\* the URL carries a planPath parameter, and its value
HasPlanPath(url) == \E i \in DOMAIN url : url[i] = "&planPath="
PlanPathValue(url) ==
    LET i == CHOOSE k \in DOMAIN url : url[k] = "&planPath="
    IN  SubSeq(url, i + 1, Len(url))

\* PILOT_SESSION_ID is set and the session's active_plan.json exists, parses
\* as JSON and contains a non-empty plan_path
ActivePlan ==
    /\ hookCall.pilotSessionId # Unset
    /\ hookCall.planFile.kind = "object"
    /\ hookCall.planFile.hasKey
    /\ hookCall.planFile.plan_path # <<>>

\* the parse of the plan file raised nothing: the handler throws only on
\* a worker error
NoErrorFromParse ==
    hookResult.outcome = "threw" => hookCall.response # "ok"

\* C26 as stated: the context hook sends the request in every case, the URL
\* carries planPath=<encoded plan_path> exactly when there is an active
\* plan, and the parse raises no error
C26_PlanPathIffActivePlan ==
    hookCall.handler = "context" =>
        /\ hookFetch.sent
        /\ HasPlanPath(hookFetch.url) <=> ActivePlan
        /\ NoErrorFromParse

\* C26 as amended: unless CLAUDE_PILOT_NO_CONTEXT is set (then nothing is
\* sent), the request is sent to the context-inject URL, which carries
\* planPath exactly when there is an active plan whose plan_path
\* encodeURIComponent accepts; the value is the plan_path URL-encoded; the
\* parse raises no error
C26_PlanPathIffEncodableActivePlan ==
    hookCall.handler = "context" =>
        /\ hookCall.noContext => ~hookFetch.sent /\ hookResult = ContextOutput
        /\ ~hookCall.noContext =>
            /\ hookFetch.sent
            /\ SubSeq(hookFetch.url, 1, Len(InjectUrl)) = InjectUrl
            /\ HasPlanPath(hookFetch.url)
                    <=> (ActivePlan /\ Encodable(hookCall.planFile.plan_path))
            /\ HasPlanPath(hookFetch.url) =>
                    LET value == PlanPathValue(hookFetch.url)
                    IN  /\ DecodeURIComponent(value) = hookCall.planFile.plan_path
                        /\ \A i \in DOMAIN value : value[i] \notin {"/", " ", LoneSurrogate}
        /\ NoErrorFromParse

C26_Witness ==
    /\ hookCall.handler = "context"
    /\ ~hookCall.noContext
    /\ hookCall.planFile = PlanFile("object", TRUE, <<"a", "/">>)
    /\ HasPlanPath(hookFetch.url)
    /\ PlanPathValue(hookFetch.url) = <<"a", "%2F">>
    /\ hookResult = ContextOutput

(***************************************************************************)
(* Properties of the timeline                                              *)
(***************************************************************************)
\* C27: the timeline is ascending by display epoch, and of two items of the
\* same kind with the same display epoch the one with the smaller id comes
\* first, whatever the order of the observations and summaries handed in
C27_TimelineOrderedByEpochThenId ==
    timeline.built =>
        \A i, j \in DOMAIN timeline.items :
            i < j =>
                /\ timeline.items[i].epoch <= timeline.items[j].epoch
                /\ (/\ timeline.items[i].epoch = timeline.items[j].epoch
                    /\ timeline.items[i].type = timeline.items[j].type)
                        => timeline.items[i].id < timeline.items[j].id

(***************************************************************************)
(* Properties of the SSE stream                                            *)
(***************************************************************************)
\* C28: the first frames a client receives are initial_load and then
\* processing_status, and the frames of a connect go to the connecting
\* client only: a client receives no initial_load after its own
C28_InitialFramesToConnectingClientOnly ==
    \A c \in Clients :
        sseFrames[c] # <<>> =>
            /\ Len(sseFrames[c]) >= 2
            /\ sseFrames[c][1].type = "initial_load"
            /\ sseFrames[c][2].type = "processing_status"
            /\ \A k \in DOMAIN sseFrames[c] :
                    k > 2 => sseFrames[c][k].type # "initial_load"

(***************************************************************************)
(* More properties of the queue iterators                                  *)
(***************************************************************************)
\* C29: an iterator that has yielded nothing (and met no error) leaves on
\* the idle path once idleTimeoutMs have passed since lastActivity: when
\* that time has passed a parked iterator's timer is due, also when
\* notifications caused by other sessions arrived in between
C29_IdleDeadlineFromLastActivity ==
    \A i \in Iters :
        (/\ iters[i].pc = "parked"
         /\ iters[i].yields = <<>>
         /\ ~iters[i].threw
         /\ iters[i].sinceActivity >= IdleTimeoutTicks)
            => iters[i].timer = 0

\* the rows iterator i takes from the store in a step
NewlyClaimed(i) ==
    {iters'[i].claimed[k] : k \in (Len(iters[i].claimed) + 1) .. Len(iters'[i].claimed)}

\* C31: a malformed payload never aborts a batch: in a step in which an
\* iterator claims rows, every claimed row whose payload parses is yielded
\* to the consumer in that step, also when another row of the same claim
\* fails to parse, and the iterator has not ended
C31_MalformedRowNeverAbortsBatch ==
    [][\A i \in Iters : \A id \in NewlyClaimed(i) :
           ~ParseFails(enqueued[id]) =>
               /\ id \in Range(Flatten(iters'[i].yields))
               /\ iters'[i].pc # "done"]_vars

\* a turn of the loop of iterator i in which the claim is attempted and throws
ClaimAttemptThrows(i) ==
    \/ ConsumerNext(i, TRUE) /\ ~iters[i].aborted
    \/ SleepReturns(i, TRUE) /\ ~iters[i].aborted
    \/ /\ WaitReturns(i, TRUE)
       /\ ~iters[i].aborted
       /\ iters[i].messageReceived \/ iters[i].sinceActivity < IdleTimeoutTicks

\* C32: a transient error thrown by a claim attempt does not end the
\* iterator and loses no message: the store is left as it was, the iterator
\* sleeps 1 s with nothing yielded and not ended; the sleep ends the
\* iterator only when cancellation is observed, and otherwise the claim is
\* made again and the oldest rows of the session then in the queue are
\* yielded, in order
C32_TransientClaimErrorRecovers ==
    /\ [][ClaimAttemptThrows(1) =>
              /\ store' = store
              /\ iters'[1].pc = "sleeping"
              /\ iters'[1].timer = ErrorSleepTicks
              /\ iters'[1].exit = ""
              /\ iters'[1].yields = iters[1].yields
              /\ iters'[1].claimed = iters[1].claimed]_vars
    /\ [][(iters[1].pc = "sleeping" /\ iters'[1].pc = "done") =>
              /\ iters[1].aborted
              /\ iters'[1].exit = "cancelled"
              /\ iters'[1].idleCalls = iters[1].idleCalls]_vars
    /\ [][(SleepReturns(1, FALSE) /\ ~iters[1].aborted) =>
              LET r == IterClaim(1)
              IN  /\ store' = r.store
                  /\ (r.rows # <<>> /\ \A k \in DOMAIN r.rows : ~ParseFails(r.rows[k])) =>
                         /\ iters'[1].yields = Append(iters[1].yields, Ids(r.rows))
                         /\ Ids(r.rows) = Ids(TakeSession(store, iters[1].sessionDbId, Len(r.rows)))]_vars

\* the first claim threw, and after the sleep the iterator yielded every
\* row it has claimed
C32_Witness ==
    /\ iters[1].threw
    /\ iters[1].pc = "yielded"
    /\ Len(iters[1].yields) = 1
    /\ iters[1].claimed = Delivered(1)

(***************************************************************************)
(* More properties of the retention scheduler                              *)
(***************************************************************************)
\* C33: an error thrown by a retention run is caught and does not interrupt
\* the cadence: when the first run throws the callback still arms the
\* daily interval and keeps its handle, and when a daily run throws its
\* interval stays armed and may fire again
C33_RunErrorKeepsCadence ==
    /\ [][\A g \in startupRuns :
              StartupRunCompletes(g, "throws") =>
                  /\ retentionInterval' \in liveIntervals' \ liveIntervals
                  /\ owner'[retentionInterval'] = g
                  /\ retentionInterval' \notin dailyRuns']_vars
    /\ [][\A h \in dailyRuns :
              DailyRunCompletes(h, "throws") =>
                  /\ liveIntervals' = liveIntervals
                  /\ retentionInterval' = retentionInterval
                  /\ h \in liveIntervals => h \notin dailyRuns']_vars

\* the first run and a daily run have thrown, and the interval is armed and
\* ready to fire again
C33_Witness ==
    /\ failedRuns = {"startup", "daily"}
    /\ retentionInterval \in liveIntervals
    /\ retentionInterval \notin dailyRuns

(***************************************************************************)
(* More properties of ensureWorkerDaemon                                   *)
(***************************************************************************)
\* C34: every bounded wait of ensureWorkerDaemon (each waitForHealth call
\* and each waitForPortFree call, on every path) is given a timeout that
\* came out of getPlatformTimeout
C34_EveryWaitPlatformTimeout ==
    \A c \in Callers : \A k \in DOMAIN calls[c] :
        calls[c][k].dep \in {"waitForHealth", "waitForPortFree"} =>
            /\ calls[c][k].timeout > 0
            /\ calls[c][k].wrapped

(***************************************************************************)
(* The shared 'message' signal                                             *)
(***************************************************************************)
\* C35: the 'message' signal is shared across sessions: one notification
\* wakes every parked iterator, whatever its session; a woken iterator
\* takes rows of its own session only and never yields a row of another
\* session; a woken iterator whose probe finds no row of its session parks
\* again with nothing yielded
C35_SharedSignalOwnProbe ==
    /\ [][EmitMessage =>
              \A i \in Iters : iters[i].pc = "parked" =>
                  iters'[i].pc = "woken" /\ iters'[i].messageReceived]_vars
    /\ [][\A i \in Iters : \A id \in NewlyClaimed(i) :
              enqueued[id].session = iters[i].sessionDbId]_vars
    /\ [](\A i \in Iters : \A k \in DOMAIN Delivered(i) :
              enqueued[Delivered(i)[k]].session = iters[i].sessionDbId)
    /\ [][\A i \in Iters :
              (/\ WaitReturns(i, FALSE)
               /\ iters[i].messageReceived
               /\ ~iters[i].aborted
               /\ TakeSession(store, iters[i].sessionDbId, 1) = <<>>) =>
                  /\ iters'[i].pc = "parked"
                  /\ iters'[i].listening
                  /\ iters'[i].yields = iters[i].yields
                  /\ store' = store]_vars

\* two iterators of different sessions were woken by a notification for a
\* row of session 1: iterator 1 has yielded it, iterator 2 found nothing and
\* is parked again
C35_Witness ==
    /\ iters[1].sessionDbId # iters[2].sessionDbId
    /\ \A k \in DOMAIN enqueued : enqueued[k].session = iters[1].sessionDbId
    /\ iters[1].notified /\ iters[2].notified
    /\ iters[1].yields # <<>>
    /\ iters[2].pc = "parked"
    /\ iters[2].yields = <<>>
    /\ store # <<>>

\* C36: every row an iterator removes from the store reaches its consumer:
\* whatever cancellation, idle timeout or notification arrives and when, a
\* row the iterator has claimed and whose payload parses has been yielded
C36_ClaimedRowsReachConsumer ==
    \A i \in Iters : \A k \in DOMAIN iters[i].claimed :
        ~ParseFails(enqueued[iters[i].claimed[k]]) =>
            \E j \in DOMAIN Delivered(i) : Delivered(i)[j] = iters[i].claimed[k]

(***************************************************************************)
(* Plan scoping over time                                                  *)
(***************************************************************************)
\* the rows of a table written under the memory_session_id of session s
RowsOf(table, s) == {row \in Range(table) : row.memory_session_id = MemorySessionId(s)}

\* the plan-scoped queries for plan P that cover the project of a row, the
\* associations being sp
ObservationResults(o, sp, P) ==
    {QueryObservationsExcludingOtherPlans(observations, sdkSessions, sp, o.project, P),
     QueryObservationsMultiExcludingOtherPlans(observations, sdkSessions, sp, Projects, P)}
SummaryResults(ss, sp, P) ==
    {QuerySummariesExcludingOtherPlans(summaries, sdkSessions, sp, ss.project, P),
     QuerySummariesMultiExcludingOtherPlans(summaries, sdkSessions, sp, Projects, P)}

\* the row is in the result, or the result is full of newer rows
WithinLimit(row, result, limit) ==
    \/ row \in Range(result)
    \/ Len(result) = limit /\ \A k \in 1 .. Len(result) : result[k].id > row.id

\* every query for P returns the row
ObservationReturned(o, sp, P) == \A res \in ObservationResults(o, sp, P) : o \in Range(res)
SummaryReturned(ss, sp, P) == \A res \in SummaryResults(ss, sp, P) : ss \in Range(res)

\* no query for P returns the row
ObservationHidden(o, sp, P) == \A res \in ObservationResults(o, sp, P) : o \notin Range(res)
SummaryHidden(ss, sp, P) == \A res \in SummaryResults(ss, sp, P) : ss \notin Range(res)

\* every query for P has the row in scope: it returns the row unless the
\* row fails the configured type and concept filters or the LIMIT is taken
\* up by newer rows
ObservationInScope(o, sp, P) ==
    \A res \in ObservationResults(o, sp, P) :
        IF ConfigFilter(o) THEN WithinLimit(o, res, TotalObservationCount)
        ELSE o \notin Range(res)
SummaryInScope(ss, sp, P) ==
    \A res \in SummaryResults(ss, sp, P) : WithinLimit(ss, res, SummaryLimit)

\* associatePlan(s, Q) replaces another plan of s
Replaces(s, Q) ==
    /\ CallAssociatePlan(s, Q, "PENDING")
    /\ GetPlanForSession(sessionPlans, s) # NoPlan
    /\ GetPlanForSession(sessionPlans, s).plan_path # Q

\* C37 as stated: after associatePlan(s, Q) has replaced plan P, every
\* earlier observation and summary of s is returned by no P-scoped query
\* and by every Q-scoped one, and after clearPlanAssociation(s) by every
\* plan-scoped query of its project
C37_ScopeFollowsCurrentAssociationEveryRow ==
    [][\A s \in sdkSessions :
          /\ \A Q \in PlanPaths : Replaces(s, Q) =>
                LET P == GetPlanForSession(sessionPlans, s).plan_path
                IN  /\ \A o \in RowsOf(observations, s) :
                           /\ ObservationHidden(o, sessionPlans', P)
                           /\ ObservationReturned(o, sessionPlans', Q)
                    /\ \A ss \in RowsOf(summaries, s) :
                           /\ SummaryHidden(ss, sessionPlans', P)
                           /\ SummaryReturned(ss, sessionPlans', Q)
          /\ CallClearPlanAssociation(s) =>
                \A P \in QueryPaths :
                    /\ \A o \in RowsOf(observations, s) :
                           ObservationReturned(o, sessionPlans', P)
                    /\ \A ss \in RowsOf(summaries, s) :
                           SummaryReturned(ss, sessionPlans', P)]_vars

\* C37, amended: after associatePlan(s, Q) has replaced plan P, every
\* earlier observation and summary of s is returned by no P-scoped query
\* and is in scope of every Q-scoped one, and after clearPlanAssociation(s)
\* it is in scope of every plan-scoped query of its project (in scope:
\* returned unless it fails the type and concept filters or the LIMIT is
\* taken up by newer rows)
C37_ScopeFollowsCurrentAssociation ==
    [][\A s \in sdkSessions :
          /\ \A Q \in PlanPaths : Replaces(s, Q) =>
                LET P == GetPlanForSession(sessionPlans, s).plan_path
                IN  /\ \A o \in RowsOf(observations, s) :
                           /\ ObservationHidden(o, sessionPlans', P)
                           /\ ObservationInScope(o, sessionPlans', Q)
                    /\ \A ss \in RowsOf(summaries, s) :
                           /\ SummaryHidden(ss, sessionPlans', P)
                           /\ SummaryInScope(ss, sessionPlans', Q)
          /\ CallClearPlanAssociation(s) =>
                \A P \in QueryPaths :
                    /\ \A o \in RowsOf(observations, s) :
                           ObservationInScope(o, sessionPlans', P)
                    /\ \A ss \in RowsOf(summaries, s) :
                           SummaryInScope(ss, sessionPlans', P)]_vars

\* the plan of a session has just been cleared while another session keeps
\* its plan, and an observation of the cleared session is returned by the
\* queries of every plan
C37_Witness ==
    /\ planRequest.route = "clearPlanAssociation"
    /\ planRequest.changed
    /\ planRequest.sessionDbId \in sdkSessions
    /\ GetPlanForSession(sessionPlans, planRequest.sessionDbId) = NoPlan
    /\ \E s \in sdkSessions : GetPlanForSession(sessionPlans, s) # NoPlan
    /\ \E o \in RowsOf(observations, planRequest.sessionDbId) :
           \A P \in QueryPaths : ObservationReturned(o, sessionPlans, P)

\* a row whose memory_session_id no row of sdk_sessions holds
Orphan(row) == OwningSessions(row) = {}

\* C39 as stated: an orphan observation or summary is returned by every
\* plan-scoped query of its project, whatever the plans of the sessions
C39_OrphanReturnedByEveryQuery ==
    \A P \in QueryPaths :
        /\ \A o \in Range(observations) : Orphan(o) => ObservationReturned(o, sessionPlans, P)
        /\ \A ss \in Range(summaries) : Orphan(ss) => SummaryReturned(ss, sessionPlans, P)

\* C39, amended: an orphan observation or summary is treated as
\* unassociated: it is in scope of every plan-scoped query of its project,
\* whatever the plans of the sessions (returned unless it fails the type
\* and concept filters or the LIMIT is taken up by newer rows)
C39_OrphanInScopeOfEveryQuery ==
    \A P \in QueryPaths :
        /\ \A o \in Range(observations) : Orphan(o) => ObservationInScope(o, sessionPlans, P)
        /\ \A ss \in Range(summaries) : Orphan(ss) => SummaryInScope(ss, sessionPlans, P)

\* a session is associated with a plan, and an orphan observation and an
\* orphan summary are returned by the queries of every plan
C39_Witness ==
    /\ \E s \in sdkSessions : GetPlanForSession(sessionPlans, s) # NoPlan
    /\ \E o \in Range(observations) :
           Orphan(o) /\ \A P \in QueryPaths : ObservationReturned(o, sessionPlans, P)
    /\ \E ss \in Range(summaries) :
           Orphan(ss) /\ \A P \in QueryPaths : SummaryReturned(ss, sessionPlans, P)

(***************************************************************************)
(* An iterator over a store that keeps failing                             *)
(***************************************************************************)
\* C38: while every claim attempt throws, the iterator never takes the idle
\* exit and never invokes onIdleTimeout, however long it has yielded
\* nothing: it is asleep for 1 s between two attempts, and it ends only
\* cancelled
C38_FailingClaimsNeverIdleExit ==
    /\ [](/\ iters[1].exit # "idle"
          /\ iters[1].idleCalls = 0
          /\ iters[1].yields = <<>>
          /\ iters[1].pc \in {"created", "sleeping", "done"}
          /\ iters[1].pc = "sleeping" => iters[1].timer \in 0 .. ErrorSleepTicks
          /\ iters[1].pc = "done" => iters[1].aborted /\ iters[1].exit = "cancelled")
    /\ [][(SleepReturns(1, TRUE) /\ ~iters[1].aborted) =>
              /\ iters'[1].pc = "sleeping"
              /\ iters'[1].timer = ErrorSleepTicks]_vars

\* rows are waiting, every attempt has thrown for idleTimeoutMs and more,
\* and the iterator, not cancelled, is asleep before its next attempt
C38_Witness ==
    /\ iters[1].pc = "sleeping"
    /\ iters[1].threw
    /\ ~iters[1].aborted
    /\ iters[1].sinceActivity >= IdleTimeoutTicks
    /\ iters[1].sinceYield >= IdleTimeoutTicks
    /\ store # <<>>

(***************************************************************************)
(* What a wait leaves behind                                               *)
(***************************************************************************)
\* C40: waitForMessage leaves nothing behind: an iterator holds one
\* 'message' listener, one abort listener and one idle timer while it is
\* parked and none of them at any other time, whichever of notification,
\* cancellation or timeout ended its waits and however many there were
C40_WaitLeavesNothingBehind ==
    \A i \in Iters :
        LET held == IF iters[i].pc = "parked" THEN 1 ELSE 0
        IN  /\ iters[i].messageListeners = held
            /\ iters[i].abortListeners = held
            /\ iters[i].idleTimers = held
            /\ iters[i].pc \notin {"parked", "sleeping"} => iters[i].timer = NoTimer

\* an iterator whose waits were ended by a notification and, the last one,
\* by the timeout has returned on the idle path
C40_Witness ==
    /\ iters[1].notified
    /\ iters[1].pc = "done"
    /\ iters[1].exit = "idle"
    /\ iters[1].messageListeners = 0

====
